---- MODULE Spec2Model ----
(***************************************************************************)
(* Query-to-answer retrieval pipeline of mealie-rag: filter synthesis      *)
(* (vectordb._build_filters), fusion retrieval (retrieve_results_simple,   *)
(* retrieve_results_rrf), query extraction (query_builder), and the        *)
(* evaluation core (eval_core: retrieval metrics and ground-truth          *)
(* filters).                                                               *)
(*                                                                         *)
(* Python values are encoded as follows.  An optional value (X | None) is  *)
(* a sequence of length at most one: None is <<>>, a present value v is    *)
(* <<v>>.  A list is a sequence, a str a string, a pydantic model a record *)
(* with one field per declared model field.                                *)
(***************************************************************************)
EXTENDS Integers, Sequences, FiniteSets, TLC

VARIABLES
  kwargs,            \* argument of the call under study: None, or the keyword
                     \* arguments QueryExtraction(...) is constructed from
  query_vectors,     \* retrieve_results_*: the query_vectors argument
  k,                 \* retrieve_results_*: the k argument
  query_filter,      \* _build_filters: the value returned (once rpc = "returned")
  index_calls,       \* client.query_points calls received by the vector index
  retrieve_outcome,  \* how the retrieve_results_* call ended
  rpc,               \* position of the filter / retrieval call
  query_builder,     \* the class of the query builder whose build is called
  user_input,        \* build: the user_input argument
  enable_expand,     \* MultiQueryQueryBuilder.enable_expand
  enable_culinary_brainstorm, \* MultiQueryQueryBuilder.enable_culinary_brainstorm
  response,          \* build: the local `response`
  chat_calls,        \* llm_client.chat calls received by the language model
  build_outcome,     \* how build ended
  pc,                \* position inside build
  retrieved_ids,     \* compute_retrieval_metrics: the retrieved_ids argument
  relevant_ids,      \* compute_retrieval_metrics: the relevant_ids argument
  metrics,           \* compute_retrieval_metrics: how the call ended
  expected,          \* build_ground_truth_filters: the expected argument
  gt_filter,         \* build_ground_truth_filters: how the call ended
  gt_warnings,       \* keys named by logger.warning in build_ground_truth_filters
  harness,           \* evaluation run: "csv" (evaluate.py) or "langfuse"
  dataset,           \* evaluation run: the rows still to be evaluated and done
  results,           \* evaluation run: the row results returned so far
  upstream,          \* evaluation run: what the collaborators did for each row
  run_state,         \* evaluation run: position of the run
  summary,           \* evaluation run: the rows each summary mean is taken over
  saved,             \* evaluation run: the rows experiment_results.save() wrote
  frontend,          \* front end: "cli" (run_qa_cli) or "ui" (run_qa_ui)
  loop,              \* front end: state of the input loop / the server
  turns,             \* front end: number of turns started so far
  trace_id,          \* front end: trace_context.trace_id, shared by all turns
  req_pc,            \* front end: position of each request inside process_input
  req_own,           \* front end: tracer.get_current_trace_id() of each request
  req_links,         \* front end: trace ids each request put in its trace links
  req_calls,         \* front end: service calls each request made in its turn
  req_out,           \* front end: messages each request showed in its turn
  req_hits,          \* front end: hits retrieval returned to each request
  scores,            \* front end: user-feedback scores created by handle_like
  scroll_index,      \* get_relevant_ids: the page the index returns per offset
  scroll_offset,     \* get_relevant_ids: the local offset
  scroll_relevant,   \* get_relevant_ids: the local relevant
  scroll_pc,         \* get_relevant_ids: position of the call
  scroll_calls,      \* get_relevant_ids: offsets of the scroll calls made
  svc,               \* service: the MealieRAGService the factory returned
  svc_built,         \* service: the extractions generate_queries returned
  svc_retrieved,     \* service: how the last retrieve_recipes call ended
  svc_calls          \* service: number of calls made on the service

vars == <<kwargs, query_vectors, k, query_filter, index_calls, retrieve_outcome,
          rpc, query_builder, user_input, enable_expand,
          enable_culinary_brainstorm, response, chat_calls, build_outcome, pc,
          retrieved_ids, relevant_ids, metrics, expected, gt_filter, gt_warnings,
          harness, dataset, results, upstream, run_state, summary, saved,
          frontend, loop, turns, trace_id, req_pc, req_own, req_links,
          req_calls, req_out, req_hits, scores,
          scroll_index, scroll_offset, scroll_relevant, scroll_pc, scroll_calls,
          svc, svc_built, svc_retrieved, svc_calls>>

retrieval_vars == <<kwargs, query_vectors, k, query_filter, index_calls,
                    retrieve_outcome, rpc>>

builder_vars == <<query_builder, user_input, enable_expand,
                  enable_culinary_brainstorm, response, chat_calls, build_outcome,
                  pc>>

eval_vars == <<retrieved_ids, relevant_ids, metrics, expected, gt_filter,
               gt_warnings>>

metrics_vars == <<retrieved_ids, relevant_ids, metrics>>

ground_truth_vars == <<expected, gt_filter, gt_warnings>>

harness_vars == <<harness, dataset, results, upstream, run_state, summary,
                  saved>>

frontend_vars == <<frontend, loop, turns, trace_id, req_pc, req_own, req_links,
                   req_calls, req_out, req_hits, scores>>

scroll_vars == <<scroll_index, scroll_offset, scroll_relevant, scroll_pc,
                 scroll_calls>>

service_vars == <<svc, svc_built, svc_retrieved, svc_calls>>

\* The state of the programs built on the pipeline: evaluation runs, the
\* interactive front ends, the ground-truth enumeration and the service.
app_vars == <<harness_vars, frontend_vars, scroll_vars, service_vars>>

(***************************************************************************)
(* Bounds of the model.                                                    *)
(***************************************************************************)
MaxNeg == 2        \* longest negative_ingredients list
MaxRating == 2     \* ratings range over 0..MaxRating
MaxVectors == 2    \* longest query_vectors list
MaxK == 2          \* k ranges over 1..MaxK
MaxQueries == 3    \* longest expanded_queries list the model returns
MaxRetrieved == 3  \* longest retrieved_ids list
MaxKeys == 2       \* most keys of an expected-properties map
MaxReqs == 2       \* longest ingredient list of an expected-properties map
MaxRows == 2       \* most rows of an evaluation dataset
MaxTurns == 2      \* most turns a front end processes
MaxChunks == 2     \* most chunks of a streamed answer
MaxCursor == 2     \* page cursors range over 1..MaxCursor
MaxScrolls == 4    \* most scroll calls of one get_relevant_ids call followed
MaxCalls == 3      \* most calls made on one service

(***************************************************************************)
(* Optional values.                                                        *)
(***************************************************************************)
None == <<>>
Some(v) == <<v>>
Get(o) == o[1]

SeqsUpTo(S, n) == UNION {[1..m -> S] : m \in 0..n}
Optional(S) == {None} \cup {Some(v) : v \in S}

(***************************************************************************)
(* str.lower() on the strings of the model's alphabet.                     *)
(***************************************************************************)
Lower(s) ==
  CASE s = "Oven" -> "oven"
    [] s = "Stove" -> "stove"
    [] s = "Fried" -> "fried"
    [] s = "Baked" -> "baked"
    [] s = "Microwave" -> "microwave"
    [] s = "Deep Fryer" -> "deep fryer"
    [] s = "MEAT" -> "meat"
    [] s = "Meat" -> "meat"
    [] s = "Pan" -> "pan"
    [] s = "Dinner" -> "dinner"
    [] s = "Quit" -> "quit"
    [] OTHER -> s

(***************************************************************************)
(* models.QueryExtraction.  The model declares five fields; pydantic's     *)
(* default configuration ignores every other keyword argument, so the      *)
(* constructed object has the declared fields only.                        *)
(***************************************************************************)
QueryExtractionFields ==
  {"expanded_queries", "negative_ingredients", "other_negative_constraints",
   "min_rating", "max_rating"}

QueryExtraction(kw) == [f \in QueryExtractionFields |-> kw[f]]

\* The keyword arguments a caller may pass: the declared fields, and the
\* structured constraints the tests pass (tools, methods, ...).
Ingredients == {"onion", "garlic"}
Ratings == 0..MaxRating

DeclaredKwargs ==
  [expanded_queries : {<<"q1">>},
   negative_ingredients : Optional(SeqsUpTo(Ingredients, MaxNeg)),
   other_negative_constraints : {None, Some(<<"no oven">>)},
   min_rating : Optional(Ratings),
   max_rating : Optional(Ratings)]

ExtraKwargs ==
  [max_total_time_minutes : {None, Some(30)},
   tools : {None, Some(<<>>), Some(<<"Oven", "Stove">>)},
   methods : {None, Some(<<"Fried", "Baked">>)},
   is_healthy : {None, Some(TRUE), Some(FALSE)},
   negative_tools : {None, Some(<<"Microwave", "Deep Fryer">>)},
   negative_methods : {None, Some(<<"Fried", "Baked">>)}]

NoExtraKwargs ==
  [max_total_time_minutes |-> None, tools |-> None, methods |-> None,
   is_healthy |-> None, negative_tools |-> None, negative_methods |-> None]

Kwargs(d, e) ==
  [expanded_queries |-> d.expanded_queries,
   negative_ingredients |-> d.negative_ingredients,
   other_negative_constraints |-> d.other_negative_constraints,
   min_rating |-> d.min_rating,
   max_rating |-> d.max_rating,
   max_total_time_minutes |-> e.max_total_time_minutes,
   tools |-> e.tools,
   methods |-> e.methods,
   is_healthy |-> e.is_healthy,
   negative_tools |-> e.negative_tools,
   negative_methods |-> e.negative_methods]

\* The query_extraction argument: None, or the constructed QueryExtraction.
ExtractionArg(kw) == IF kw = None THEN None ELSE Some(QueryExtraction(Get(kw)))

(***************************************************************************)
(* qdrant_client.models value constructors, as vectordb.py uses them.      *)
(***************************************************************************)
MatchText(text) == [text |-> text]
Range(gte, lt) == [gte |-> gte, lt |-> lt, gt |-> None, lte |-> None]
FieldCondition(key, match, range) == [key |-> key, match |-> match, range |-> range]
Filter(must, must_not) == [must |-> must, must_not |-> must_not]

(***************************************************************************)
(* vectordb._build_filters                                                 *)
(***************************************************************************)
\* Faulty variant: only the first negative ingredient is excluded.
NegativeIngredientConditionsFirstOnly(qe) ==
  IF qe.negative_ingredients # None /\ Get(qe.negative_ingredients) # <<>>
  THEN <<FieldCondition("normalized_ingredients",
                        Some(MatchText(Get(qe.negative_ingredients)[1])), None)>>
  ELSE <<>>

\* lines 55-63: one MatchText leaf per negative ingredient, in order
NegativeIngredientConditions(qe) ==
  IF qe.negative_ingredients # None /\ Get(qe.negative_ingredients) # <<>>
  THEN [j \in 1..Len(Get(qe.negative_ingredients)) |->
          FieldCondition("normalized_ingredients",
                         Some(MatchText(Get(qe.negative_ingredients)[j])), None)]
  ELSE <<>>

\* Faulty variant: the rating leaf is added only when both bounds are set.
RatingConditionsBothBounds(qe) ==
  IF qe.min_rating # None /\ qe.max_rating # None
  THEN <<FieldCondition("rating", None, Some(Range(qe.min_rating, qe.max_rating)))>>
  ELSE <<>>

\* lines 65-78: one Range leaf on rating when either bound is set
RatingConditions(qe) ==
  IF qe.min_rating # None \/ qe.max_rating # None
  THEN <<FieldCondition("rating", None, Some(Range(qe.min_rating, qe.max_rating)))>>
  ELSE <<>>

\* Faulty variant: the early return of line 80-81 is missing.
BuildFilterFromAlwaysFilter(must_conditions, must_not_conditions) ==
  Some(Filter(IF must_conditions # <<>> THEN Some(must_conditions) ELSE None,
              IF must_not_conditions # <<>> THEN Some(must_not_conditions)
              ELSE None))

\* lines 80-86: None when no leaf was produced, else the Filter
BuildFilterFrom(must_conditions, must_not_conditions) ==
  IF must_not_conditions = <<>> /\ must_conditions = <<>>
  THEN None
  ELSE Some(Filter(IF must_conditions # <<>> THEN Some(must_conditions) ELSE None,
                   IF must_not_conditions # <<>> THEN Some(must_not_conditions)
                   ELSE None))

_build_filters(query_extraction) ==
  IF query_extraction = None
  THEN None
  ELSE LET qe == Get(query_extraction)
           must_not_conditions == NegativeIngredientConditions(qe)
           must_conditions == RatingConditions(qe)
       IN BuildFilterFrom(must_conditions, must_not_conditions)

\* The leaves of a filter result, the empty list for None.
MustLeaves(f) == IF f = None \/ Get(f).must = None THEN <<>> ELSE Get(Get(f).must)
MustNotLeaves(f) ==
  IF f = None \/ Get(f).must_not = None THEN <<>> ELSE Get(Get(f).must_not)

(***************************************************************************)
(* The vector index (QdrantClient.query_points), an external collaborator: *)
(* it returns a list of points or raises.                                  *)
(***************************************************************************)
CollectionName == "mealie_recipes"
VectorValues == {<<1>>, <<2>>}
PointLists == {<<>>, <<"r1">>, <<"r1", "r2">>}

Pending == [kind |-> "pending", error |-> None, points |-> <<>>]
Returned(points) == [kind |-> "returned", error |-> None, points |-> points]
Raised(type, msg) ==
  [kind |-> "raised", error |-> Some([type |-> type, msg |-> msg]), points |-> <<>>]

IndexReplies == {Returned(p) : p \in PointLists}
                  \cup {Raised("UpstreamError", <<"vector index", 0>>)}

Prefetch(query, limit, filter) == [query |-> query, limit |-> limit, filter |-> filter]

QueryPointsCall(collection_name, query, fusion, prefetch, limit, filter) ==
  [collection_name |-> collection_name, query |-> query, fusion |-> fusion,
   prefetch |-> prefetch, limit |-> limit, query_filter |-> filter]

(***************************************************************************)
(* vectordb.retrieve_results_simple                                        *)
(***************************************************************************)
\* line 100: the message of the ValueError, the text and the formatted count
SimpleErrorMessage(n) == <<"Simple retrieval supports exactly one query vector, got ", n>>

\* Faulty variant: only an empty list of vectors is rejected.
SimpleRejectsOnlyEmpty(vectors) == Len(vectors) = 0

\* lines 99-102: the vector-count validation
SimpleRejects(vectors) == Len(vectors) # 1

\* lines 118-123: the query sent to the index
SimpleQuery(vectors, limit, filter) ==
  QueryPointsCall(CollectionName, Some(vectors[1]), None, None, limit, filter)

RetrieveSimple ==
  /\ rpc = "input"
  /\ rpc' = "simple"
  /\ IF SimpleRejects(query_vectors)
     THEN /\ retrieve_outcome' = Raised("ValueError", SimpleErrorMessage(Len(query_vectors)))
          /\ UNCHANGED <<query_filter, index_calls>>
     ELSE /\ query_filter' = _build_filters(ExtractionArg(kwargs))
          /\ index_calls' = Append(index_calls, SimpleQuery(query_vectors, k, query_filter'))
          /\ \E reply \in IndexReplies : retrieve_outcome' = reply
  /\ UNCHANGED <<kwargs, query_vectors, k>>
  /\ UNCHANGED builder_vars
  /\ UNCHANGED eval_vars
  /\ UNCHANGED app_vars

(***************************************************************************)
(* vectordb.retrieve_results_rrf                                           *)
(***************************************************************************)
\* Faulty variant: the prefetch sub-queries do not carry the filter.
RrfPrefetchUnfiltered(vectors, limit, filter) ==
  [i \in 1..Len(vectors) |-> Prefetch(vectors[i], limit, None)]

\* lines 151-158: one Prefetch per query vector, in order
RrfPrefetch(vectors, limit, filter) ==
  [i \in 1..Len(vectors) |-> Prefetch(vectors[i], limit, filter)]

\* lines 160-165: the fused query; the filter travels in the prefetches only
RrfQuery(vectors, limit, filter) ==
  QueryPointsCall(CollectionName, None, Some("rrf"),
                  Some(RrfPrefetch(vectors, limit, filter)), limit, None)

RetrieveRrf ==
  /\ rpc = "input"
  /\ rpc' = "rrf"
  /\ query_filter' = _build_filters(ExtractionArg(kwargs))
  /\ index_calls' = Append(index_calls, RrfQuery(query_vectors, k, query_filter'))
  /\ \E reply \in IndexReplies : retrieve_outcome' = reply
  /\ UNCHANGED <<kwargs, query_vectors, k>>
  /\ UNCHANGED builder_vars
  /\ UNCHANGED eval_vars
  /\ UNCHANGED app_vars

(***************************************************************************)
(* A direct call of _build_filters.                                        *)
(***************************************************************************)
BuildFilters ==
  /\ rpc = "input"
  /\ rpc' = "returned"
  /\ query_filter' = _build_filters(ExtractionArg(kwargs))
  /\ UNCHANGED <<kwargs, query_vectors, k, index_calls, retrieve_outcome>>
  /\ UNCHANGED builder_vars
  /\ UNCHANGED eval_vars
  /\ UNCHANGED app_vars

(***************************************************************************)
(* prompts.PromptType: the members the enumeration declares.  Reading a    *)
(* member it does not declare raises AttributeError.                       *)
(***************************************************************************)
PromptType == {"CHAT_GENERATION", "MULTI_QUERY_BUILDER"}

HasPromptType(member) == member \in PromptType

(***************************************************************************)
(* The language model (llm_client.chat), an external collaborator: a call  *)
(* returns a reply or raises.  With response_model=QueryExtraction the     *)
(* reply is a QueryExtraction, otherwise a str.                            *)
(***************************************************************************)
UserInputs == {"original query", "vegan dinner"}
QueryTexts == {"Query 1", "Query 2"}
RefinedTexts == {"Refined Query 1", "Refined Query 2"}

ChatReturns(reply) == [raised |-> FALSE, reply |-> Some(reply)]
ChatRaises == [raised |-> TRUE, reply |-> None]

ExpansionReplies ==
  [expanded_queries : SeqsUpTo(QueryTexts, MaxQueries),
   negative_ingredients : {None, Some(<<"onion">>)},
   other_negative_constraints : {None},
   min_rating : {None, Some(1)},
   max_rating : {None}]

ExpansionOutcomes == {ChatReturns(r) : r \in ExpansionReplies} \cup {ChatRaises}
BrainstormOutcomes == {ChatReturns(t) : t \in RefinedTexts} \cup {ChatRaises}

\* One llm_client.chat call as the model receives it: the prompt compiled,
\* the text compiled into it, the response_model, and how it ended.
ChatCall(prompt_type, text, response_model, outcome) ==
  [prompt |-> prompt_type, user_input |-> text, response_model |-> response_model,
   raised |-> outcome.raised, reply |-> outcome.reply]

BuildPending == [kind |-> "pending", error |-> None, value |-> None]
BuildReturned(r) == [kind |-> "returned", error |-> None, value |-> Some(r)]
BuildRaised(e) == [kind |-> "raised", error |-> Some(e), value |-> None]

(***************************************************************************)
(* query_builder.MultiQueryQueryBuilder.build                              *)
(***************************************************************************)
\* Faulty variant: the input is not carried into expanded_queries.
PassThroughEmpty(input) ==
  QueryExtraction(Kwargs([expanded_queries |-> <<>>,
                          negative_ingredients |-> None,
                          other_negative_constraints |-> None,
                          min_rating |-> None,
                          max_rating |-> None], NoExtraKwargs))

\* lines 49 and 123: QueryExtraction(expanded_queries=[user_input])
PassThrough(input) ==
  QueryExtraction(Kwargs([expanded_queries |-> <<input>>,
                          negative_ingredients |-> None,
                          other_negative_constraints |-> None,
                          min_rating |-> None,
                          max_rating |-> None], NoExtraKwargs))

\* lines 100-117: the expansion call; an error of the call leaves build
ExpandStage(input, outcome) ==
  LET call == ChatCall("MULTI_QUERY_BUILDER", input, Some("QueryExtraction"), outcome)
  IN IF outcome.raised
     THEN [pc |-> "raised", response |-> None, calls |-> <<call>>,
           build_outcome |-> BuildRaised("LLMError")]
     ELSE [pc |-> "brainstorm", response |-> outcome.reply, calls |-> <<call>>,
           build_outcome |-> BuildPending]

\* lines 129-144: one chat call per query, in list order, each reply replacing
\* its query in place; an error of a call leaves the loop and build
RECURSIVE BrainstormLoop(_, _, _, _)
BrainstormLoop(queries, outcomes, idx, calls) ==
  IF idx > Len(queries)
  THEN [queries |-> queries, calls |-> calls, raised |-> FALSE]
  ELSE LET call == ChatCall("CULINARY_BRAINSTORM", queries[idx], None, outcomes[idx])
       IN IF outcomes[idx].raised
          THEN [queries |-> queries, calls |-> Append(calls, call), raised |-> TRUE]
          ELSE BrainstormLoop([queries EXCEPT ![idx] = Get(outcomes[idx].reply)],
                              outcomes, idx + 1, Append(calls, call))

\* lines 100-117
Expand ==
  /\ query_builder = "MultiQueryQueryBuilder"
  /\ pc = "start"
  /\ enable_expand
  /\ HasPromptType("MULTI_QUERY_BUILDER")
  /\ \E outcome \in ExpansionOutcomes :
       LET r == ExpandStage(user_input, outcome)
       IN /\ pc' = r.pc
          /\ response' = r.response
          /\ chat_calls' = chat_calls \o r.calls
          /\ build_outcome' = r.build_outcome
  /\ UNCHANGED <<query_builder, user_input, enable_expand, enable_culinary_brainstorm>>
  /\ UNCHANGED retrieval_vars
  /\ UNCHANGED eval_vars
  /\ UNCHANGED app_vars

\* lines 118-123
SkipExpand ==
  /\ query_builder = "MultiQueryQueryBuilder"
  /\ pc = "start"
  /\ ~enable_expand
  /\ response' = Some(PassThrough(user_input))
  /\ pc' = "brainstorm"
  /\ UNCHANGED <<query_builder, user_input, enable_expand, enable_culinary_brainstorm, chat_calls,
                 build_outcome>>
  /\ UNCHANGED retrieval_vars
  /\ UNCHANGED eval_vars
  /\ UNCHANGED app_vars

\* lines 125-144, then 151-153: the prompt lookup of lines 126-128 reads
\* PromptType.CULINARY_BRAINSTORM before any rewrite call is made
Brainstorm ==
  /\ query_builder = "MultiQueryQueryBuilder"
  /\ pc = "brainstorm"
  /\ enable_culinary_brainstorm
  /\ IF ~HasPromptType("CULINARY_BRAINSTORM")
     THEN /\ pc' = "raised"
          /\ build_outcome' = BuildRaised("AttributeError")
          /\ UNCHANGED <<response, chat_calls>>
     ELSE \E outcomes \in [1..Len(Get(response).expanded_queries) -> BrainstormOutcomes] :
            LET r == BrainstormLoop(Get(response).expanded_queries, outcomes, 1, <<>>)
                rewritten == [Get(response) EXCEPT !.expanded_queries = r.queries]
            IN /\ response' = Some(rewritten)
               /\ chat_calls' = chat_calls \o r.calls
               /\ pc' = IF r.raised THEN "raised" ELSE "done"
               /\ build_outcome' = IF r.raised THEN BuildRaised("LLMError")
                                   ELSE BuildReturned(rewritten)
  /\ UNCHANGED <<query_builder, user_input, enable_expand, enable_culinary_brainstorm>>
  /\ UNCHANGED retrieval_vars
  /\ UNCHANGED eval_vars
  /\ UNCHANGED app_vars

\* lines 145-153
SkipBrainstorm ==
  /\ query_builder = "MultiQueryQueryBuilder"
  /\ pc = "brainstorm"
  /\ ~enable_culinary_brainstorm
  /\ pc' = "done"
  /\ build_outcome' = BuildReturned(Get(response))
  /\ UNCHANGED <<query_builder, user_input, enable_expand, enable_culinary_brainstorm, response,
                 chat_calls>>
  /\ UNCHANGED retrieval_vars
  /\ UNCHANGED eval_vars
  /\ UNCHANGED app_vars

(***************************************************************************)
(* query_builder.DefaultQueryBuilder.build                                 *)
(***************************************************************************)
\* lines 45-49
DefaultBuild ==
  /\ query_builder = "DefaultQueryBuilder"
  /\ pc = "start"
  /\ response' = Some(PassThrough(user_input))
  /\ pc' = "done"
  /\ build_outcome' = BuildReturned(Get(response'))
  /\ UNCHANGED <<query_builder, user_input, enable_expand, enable_culinary_brainstorm,
                 chat_calls>>
  /\ UNCHANGED retrieval_vars
  /\ UNCHANGED eval_vars
  /\ UNCHANGED app_vars

BuilderIdle ==
  /\ query_builder = "DefaultQueryBuilder"
  /\ user_input = "original query"
  /\ enable_expand = FALSE
  /\ enable_culinary_brainstorm = FALSE
  /\ response = None
  /\ chat_calls = <<>>
  /\ build_outcome = BuildPending
  /\ pc = "idle"

RetrievalIdle ==
  /\ kwargs = None
  /\ query_vectors = <<>>
  /\ k = 1
  /\ query_filter = None
  /\ index_calls = <<>>
  /\ retrieve_outcome = Pending
  /\ rpc = "idle"

MetricsIdle ==
  /\ retrieved_ids = <<>>
  /\ relevant_ids = {}
  /\ metrics = [kind |-> "idle"]

GroundTruthIdle ==
  /\ expected = <<>>
  /\ gt_filter = [kind |-> "idle"]
  /\ gt_warnings = <<>>

EvalIdle == MetricsIdle /\ GroundTruthIdle

HarnessIdle ==
  /\ harness = "none"
  /\ dataset = <<>>
  /\ results = <<>>
  /\ upstream = <<>>
  /\ run_state = "idle"
  /\ summary = [kind |-> "idle"]
  /\ saved = None

Requests == {1, 2}

FrontEndIdle ==
  /\ frontend = "none"
  /\ loop = "idle"
  /\ turns = 0
  /\ trace_id = None
  /\ req_pc = [r \in Requests |-> "idle"]
  /\ req_own = [r \in Requests |-> None]
  /\ req_links = [r \in Requests |-> <<>>]
  /\ req_calls = [r \in Requests |-> <<>>]
  /\ req_out = [r \in Requests |-> <<>>]
  /\ req_hits = [r \in Requests |-> <<>>]
  /\ scores = <<>>

ScrollIdle ==
  /\ scroll_index = <<>>
  /\ scroll_offset = None
  /\ scroll_relevant = {}
  /\ scroll_pc = "idle"
  /\ scroll_calls = <<>>

ServiceIdle ==
  /\ svc = None
  /\ svc_built = {}
  /\ svc_retrieved = None
  /\ svc_calls = 0

AppIdle == HarnessIdle /\ FrontEndIdle /\ ScrollIdle /\ ServiceIdle

\* Filter synthesis: every combination of keyword arguments, or no extraction.
InitFilters ==
  /\ kwargs \in {None} \cup {Some(Kwargs(d, e)) : d \in DeclaredKwargs, e \in ExtraKwargs}
  /\ query_vectors = <<>>
  /\ k = 1
  /\ query_filter = None
  /\ index_calls = <<>>
  /\ retrieve_outcome = Pending
  /\ rpc = "input"
  /\ BuilderIdle
  /\ EvalIdle
  /\ AppIdle

NextFilters == BuildFilters

SpecFilters == InitFilters /\ [][NextFilters]_vars

\* Retrieval: any list of query vectors, any k, any extraction of declared fields.
InitRetrieve ==
  /\ kwargs \in {None} \cup {Some(Kwargs(d, NoExtraKwargs)) : d \in DeclaredKwargs}
  /\ query_vectors \in SeqsUpTo(VectorValues, MaxVectors)
  /\ k \in 1..MaxK
  /\ query_filter = None
  /\ index_calls = <<>>
  /\ retrieve_outcome = Pending
  /\ rpc = "input"
  /\ BuilderIdle
  /\ EvalIdle
  /\ AppIdle

NextRetrieve == RetrieveSimple \/ RetrieveRrf

SpecRetrieve == InitRetrieve /\ [][NextRetrieve]_vars

\* Query extraction: a builder with any setting of the two flags, any input.
InitBuild ==
  /\ query_builder \in {"DefaultQueryBuilder", "MultiQueryQueryBuilder"}
  /\ user_input \in UserInputs
  /\ enable_expand \in BOOLEAN
  /\ enable_culinary_brainstorm \in BOOLEAN
  /\ query_builder = "DefaultQueryBuilder" =>
       ~enable_expand /\ ~enable_culinary_brainstorm
  /\ response = None
  /\ chat_calls = <<>>
  /\ build_outcome = BuildPending
  /\ pc = "start"
  /\ RetrievalIdle
  /\ EvalIdle
  /\ AppIdle

NextBuild == Expand \/ SkipExpand \/ Brainstorm \/ SkipBrainstorm \/ DefaultBuild

SpecBuild == InitBuild /\ [][NextBuild]_vars

(***************************************************************************)
(* Claims about filter synthesis (checked under SpecFilters).              *)
(***************************************************************************)
\* The extraction _build_filters was called with (kwargs # None).
BuiltExtraction == QueryExtraction(Get(kwargs))

\* Truthiness of an optional list: set and non-empty.
NonEmptyList(o) == o # None /\ Get(o) # <<>>

AllConstraintsUnset(qe) ==
  /\ qe.negative_ingredients = None
  /\ qe.other_negative_constraints = None
  /\ qe.min_rating = None
  /\ qe.max_rating = None

\* C1: _build_filters returns None when given no extraction or an extraction
\* whose optional constraint fields are all unset, and a Filter it returns
\* always has a non-empty must or a non-empty must_not list.
C1_NoEmptyFilter ==
  rpc = "returned" =>
    /\ (kwargs = None => query_filter = None)
    /\ (kwargs # None /\ AllConstraintsUnset(BuiltExtraction) => query_filter = None)
    /\ (query_filter # None =>
          \/ (Get(query_filter).must # None /\ Get(Get(query_filter).must) # <<>>)
          \/ (Get(query_filter).must_not # None
                /\ Get(Get(query_filter).must_not) # <<>>))

C1_Witness ==
  /\ rpc = "returned"
  /\ kwargs # None
  /\ AllConstraintsUnset(BuiltExtraction)
  /\ query_filter = None

\* The number of must / must_not leaves the claim C5 prescribes for the
\* keyword arguments kw.
Count(b) == IF b THEN 1 ELSE 0

ExpectedMustCount(kw) ==
  Count(kw.min_rating # None \/ kw.max_rating # None)
    + Count(kw.max_total_time_minutes # None)
    + Count(NonEmptyList(kw.tools))
    + Count(NonEmptyList(kw.methods))
    + Count(kw.is_healthy # None)

ExpectedMustNotCount(kw) ==
  (IF kw.negative_ingredients = None THEN 0 ELSE Len(Get(kw.negative_ingredients)))
    + Count(NonEmptyList(kw.negative_tools))
    + Count(NonEmptyList(kw.negative_methods))

\* C5: the filter has one must leaf for each of rating range,
\* max_total_time_minutes, tools, methods, is_healthy that is set, and one
\* must_not leaf per negative ingredient plus one each for negative_tools and
\* negative_methods when set.
C5_LeafCounts ==
  rpc = "returned" /\ kwargs # None =>
    /\ Len(MustLeaves(query_filter)) = ExpectedMustCount(Get(kwargs))
    /\ Len(MustNotLeaves(query_filter)) = ExpectedMustNotCount(Get(kwargs))

\* Some leaf of the list satisfies P.
HasLeaf(leaves, P(_)) == \E i \in 1..Len(leaves) : P(leaves[i])

LowerAll(xs) == [i \in 1..Len(xs) |-> Lower(xs[i])]

IsMatchAnyLeaf(c, key, values) ==
  c.key = key /\ c.match # None /\ Get(c.match) = [any |-> LowerAll(values)]

\* C6: max_total_time_minutes gives a must range leaf (lte) on
\* total_time_minutes, is_healthy a must exact-match leaf on is_healthy, tools
\* and methods a must match-any leaf on tools / method with the values
\* lowercased in order, negative_tools and negative_methods the same leaf under
\* must_not.
C6_StructuredLeaves ==
  rpc = "returned" /\ kwargs # None =>
    LET kw == Get(kwargs)
        must == MustLeaves(query_filter)
        must_not == MustNotLeaves(query_filter)
    IN /\ (kw.max_total_time_minutes # None =>
             HasLeaf(must, LAMBDA c : /\ c.key = "total_time_minutes"
                                      /\ c.range # None
                                      /\ Get(c.range).lte = kw.max_total_time_minutes))
       /\ (kw.is_healthy # None =>
             HasLeaf(must, LAMBDA c : /\ c.key = "is_healthy"
                                      /\ c.match # None
                                      /\ Get(c.match) = [value |-> Get(kw.is_healthy)]))
       /\ (NonEmptyList(kw.tools) =>
             HasLeaf(must, LAMBDA c : IsMatchAnyLeaf(c, "tools", Get(kw.tools))))
       /\ (NonEmptyList(kw.methods) =>
             HasLeaf(must, LAMBDA c : IsMatchAnyLeaf(c, "method", Get(kw.methods))))
       /\ (NonEmptyList(kw.negative_tools) =>
             HasLeaf(must_not,
                     LAMBDA c : IsMatchAnyLeaf(c, "tools", Get(kw.negative_tools))))
       /\ (NonEmptyList(kw.negative_methods) =>
             HasLeaf(must_not,
                     LAMBDA c : IsMatchAnyLeaf(c, "method", Get(kw.negative_methods))))

IsIngredientLeaf(c) == c.key = "normalized_ingredients" /\ c.match # None

\* C7: negative_ingredients = [i1..in] puts exactly n text-match leaves on
\* normalized_ingredients into must_not, the j-th matching the raw term ij,
\* and adds nothing to must.
C7_NegativeIngredients ==
  rpc = "returned" /\ kwargs # None /\ BuiltExtraction.negative_ingredients # None =>
    LET terms == Get(BuiltExtraction.negative_ingredients)
        leaves == SelectSeq(MustNotLeaves(query_filter), IsIngredientLeaf)
        without == [BuiltExtraction EXCEPT !.negative_ingredients = None]
    IN /\ Len(leaves) = Len(terms)
       /\ \A j \in 1..Len(terms) :
            leaves[j] = [key |-> "normalized_ingredients",
                         match |-> Some([text |-> terms[j]]),
                         range |-> None]
       /\ ~HasLeaf(MustLeaves(query_filter), LAMBDA c : c.key = "normalized_ingredients")
       /\ MustLeaves(query_filter) = MustLeaves(_build_filters(Some(without)))

C7_Witness ==
  /\ rpc = "returned"
  /\ kwargs # None
  /\ BuiltExtraction.negative_ingredients = Some(<<"onion", "garlic">>)
  /\ Len(MustNotLeaves(query_filter)) = 2
  /\ MustNotLeaves(query_filter)[2].match = Some([text |-> "garlic"])

IsRatingLeaf(c) == c.key = "rating"

\* C8: when min_rating or max_rating is set there is exactly one must range
\* leaf on rating, gte = min_rating and lt = max_rating, an unset bound left
\* absent; when neither is set there is no rating leaf.
C8_RatingRange ==
  rpc = "returned" /\ kwargs # None =>
    LET qe == BuiltExtraction
        leaves == SelectSeq(MustLeaves(query_filter), IsRatingLeaf)
    IN /\ ~HasLeaf(MustNotLeaves(query_filter), IsRatingLeaf)
       /\ IF qe.min_rating # None \/ qe.max_rating # None
          THEN /\ Len(leaves) = 1
               /\ leaves[1].match = None
               /\ leaves[1].range # None
               /\ Get(leaves[1].range).gte = qe.min_rating
               /\ Get(leaves[1].range).lt = qe.max_rating
               /\ Get(leaves[1].range).gt = None
               /\ Get(leaves[1].range).lte = None
          ELSE Len(leaves) = 0

C8_Witness ==
  /\ rpc = "returned"
  /\ kwargs # None
  /\ BuiltExtraction.min_rating = Some(0)
  /\ BuiltExtraction.max_rating = None
  /\ Len(MustLeaves(query_filter)) = 1
  /\ Get(MustLeaves(query_filter)[1].range).gte = Some(0)
  /\ Get(MustLeaves(query_filter)[1].range).lt = None

(***************************************************************************)
(* Claims about retrieval (checked under SpecRetrieve).                    *)
(***************************************************************************)
\* C3: retrieve_results_simple with a number of query vectors other than one
\* raises a ValueError whose message names the count received, before any
\* query is sent to the index.
C3_SimpleVectorCount ==
  rpc = "simple" /\ Len(query_vectors) # 1 =>
    /\ retrieve_outcome.kind = "raised"
    /\ Get(retrieve_outcome.error).type = "ValueError"
    /\ Get(retrieve_outcome.error).msg[2] = Len(query_vectors)
    /\ index_calls = <<>>

C3_Witness ==
  /\ rpc = "simple"
  /\ Len(query_vectors) = 2
  /\ retrieve_outcome.kind = "raised"
  /\ Get(retrieve_outcome.error).msg[2] = 2

\* C4: retrieve_results_rrf with n >= 1 query vectors issues a single fused
\* (RRF) query limited to k with exactly n prefetch sub-queries, the i-th
\* carrying the i-th vector, each with the filter built from the extraction
\* and the limit k.
C4_RrfPrefetch ==
  rpc = "rrf" /\ Len(query_vectors) >= 1 =>
    /\ Len(index_calls) = 1
    /\ index_calls[1].fusion = Some("rrf")
    /\ index_calls[1].query = None
    /\ index_calls[1].limit = k
    /\ index_calls[1].prefetch # None
    /\ LET prefetch == Get(index_calls[1].prefetch)
       IN /\ Len(prefetch) = Len(query_vectors)
          /\ \A i \in 1..Len(query_vectors) :
               /\ prefetch[i].query = query_vectors[i]
               /\ prefetch[i].limit = k
               /\ prefetch[i].filter = _build_filters(ExtractionArg(kwargs))

C4_Witness ==
  /\ rpc = "rrf"
  /\ Len(query_vectors) = 2
  /\ query_vectors[1] # query_vectors[2]
  /\ Len(index_calls) = 1
  /\ Len(Get(index_calls[1].prefetch)) = 2
  /\ Get(index_calls[1].prefetch)[2].filter # None

(***************************************************************************)
(* Claims about query extraction (checked under SpecBuild).                *)
(***************************************************************************)
BuildEnded == pc \in {"done", "raised"}

NoChatCallRaised == \A i \in 1..Len(chat_calls) : ~chat_calls[i].raised

\* The extraction before rewriting: the reply of the expansion call, or the
\* pass-through extraction when expansion is disabled.
ExpandedBefore ==
  IF enable_expand THEN Get(chat_calls[1].reply) ELSE PassThrough(user_input)

ExpectedChatCalls ==
  IF enable_expand /\ enable_culinary_brainstorm
  THEN 1 + Len(ExpandedBefore.expanded_queries)
  ELSE IF enable_expand \/ enable_culinary_brainstorm THEN 1 ELSE 0

\* C2: an invocation of build in which no model call fails makes
\* 1 + len(expanded_queries) chat calls with expansion and brainstorm enabled,
\* 1 with expansion only, 1 with brainstorm only, 0 with both disabled.
C2_ChatCallCount ==
  BuildEnded /\ NoChatCallRaised => Len(chat_calls) = ExpectedChatCalls

\* C9: with brainstorm enabled, build returns a list of the same length whose
\* i-th element is the reply to the rewrite call made for the i-th query, the
\* rewrite calls being made in list order after the expansion call, and every
\* other field of the extraction is unchanged.
C9_BrainstormInPlace ==
  BuildEnded /\ enable_culinary_brainstorm /\ NoChatCallRaised =>
    /\ build_outcome.kind = "returned"
    /\ LET before == ExpandedBefore
           after == Get(build_outcome.value)
           n == Len(before.expanded_queries)
           first == IF enable_expand THEN 1 ELSE 0
       IN /\ Len(after.expanded_queries) = n
          /\ Len(chat_calls) = first + n
          /\ \A i \in 1..n :
               /\ chat_calls[first + i].prompt = "CULINARY_BRAINSTORM"
               /\ chat_calls[first + i].user_input = before.expanded_queries[i]
               /\ after.expanded_queries[i] = Get(chat_calls[first + i].reply)
          /\ after.negative_ingredients = before.negative_ingredients
          /\ after.other_negative_constraints = before.other_negative_constraints
          /\ after.min_rating = before.min_rating
          /\ after.max_rating = before.max_rating

\* A chat call that raises is the last chat call build makes (no retry, no
\* call for the remaining queries), and build ends by raising that error.
ChatErrorIsLast ==
  \A i \in 1..Len(chat_calls) :
    chat_calls[i].raised =>
      /\ i = Len(chat_calls)
      /\ pc = "raised"
      /\ build_outcome.kind = "raised"
      /\ build_outcome.error = Some("LLMError")
      /\ build_outcome.value = None

\* build got past its expansion stage with the rewriting enabled: the
\* queries of ExpandedBefore are the ones the brainstorm calls are made for.
ReachedBrainstorm ==
  /\ enable_culinary_brainstorm
  /\ pc \in {"brainstorm", "done", "raised"}
  /\ enable_expand => Len(chat_calls) >= 1 /\ ~chat_calls[1].raised

C11_PassThroughBuilders ==
  (query_builder = "DefaultQueryBuilder"
     \/ (~enable_expand /\ ~enable_culinary_brainstorm)) =>
    /\ pc # "raised"
    /\ chat_calls = <<>>
    /\ (pc # "done" => ENABLED NextBuild)
    /\ (pc = "done" =>
          /\ build_outcome.kind = "returned"
          /\ Get(build_outcome.value).expanded_queries = <<user_input>>
          /\ AllConstraintsUnset(Get(build_outcome.value)))

C11_Witness ==
  /\ query_builder = "MultiQueryQueryBuilder"
  /\ ~enable_expand
  /\ ~enable_culinary_brainstorm
  /\ pc = "done"
  /\ build_outcome.kind = "returned"
  /\ Get(build_outcome.value).expanded_queries = <<"vegan dinner">>

\* C12: every QueryExtraction a builder returns (and so hands to retrieval)
\* has a non-empty expanded_queries list, whatever the language model
\* returned for the expansion call.
C12_NonEmptyExpandedQueries ==
  build_outcome.kind = "returned" =>
    Len(Get(build_outcome.value).expanded_queries) >= 1

(***************************************************************************)
(* eval_core: retrieval metrics.  A Python float produced by a division    *)
(* is the exact fraction [n, d]; a fraction whose d is 0 stands for the    *)
(* ZeroDivisionError the division raises.                                  *)
(***************************************************************************)
DocIds == {"a", "b", "x", "y"}

Div(n, d) == [n |-> n, d |-> d]
Zero == Div(0, 1)

RatLe(p, q) == p.n * q.d <= q.n * p.d
RatLt(p, q) == p.n * q.d < q.n * p.d
RatEq(p, q) == p.n * q.d = q.n * p.d
One == Div(1, 1)

Min(m, n) == IF m <= n THEN m ELSE n

\* Faulty variant: every position discounted alike.
DiscountFlat(i) ==
  CASE i = 0 -> 10000
    [] OTHER -> 10000

\* 1 / math.log2(i + 2), in ten-thousandths, rounded to the nearest integer.
Discount(i) ==
  CASE i = 0 -> 10000
    [] i = 1 -> 6309
    [] i = 2 -> 5000
    [] i = 3 -> 4307
    [] i = 4 -> 3869
    [] i = 5 -> 3562
    [] i = 6 -> 3333
    [] i = 7 -> 3155
    [] i = 8 -> 3010
    [] i = 9 -> 2891

\* sum(1 for rid in retrieved_ids if rid in relevant_ids): positions, not ids.
relevant_retrieved(retrieved, relevant) ==
  Cardinality({i \in 1..Len(retrieved) : retrieved[i] \in relevant})

\* precision = relevant_retrieved / k if k > 0 else 0.0, without the guard.
\* Faulty variant.
PrecisionUnguarded(hits, kk) == Div(hits, kk)

Precision(hits, kk) == IF kk > 0 THEN Div(hits, kk) ELSE Zero

Recall(hits, relevant) ==
  IF relevant # {} THEN Div(hits, Cardinality(relevant)) ELSE Zero

\* Faulty variant: capped recall divided by k alone.
RecallCappedByK(hits, kk, relevant) ==
  IF relevant # {} /\ kk > 0 THEN Div(hits, kk) ELSE Zero

RecallCapped(hits, kk, relevant) ==
  IF relevant # {} /\ kk > 0
    THEN Div(hits, Min(kk, Cardinality(relevant)))
    ELSE Zero

\* Faulty variant: true only when every retrieved id is relevant.
HitAll(retrieved, relevant) ==
  \A i \in 1..Len(retrieved) : retrieved[i] \in relevant

Hit(retrieved, relevant) ==
  \E i \in 1..Len(retrieved) : retrieved[i] \in relevant

\* Faulty variant: the loop without its break, so the last relevant position
\* decides.
MrrLastRelevant(retrieved, relevant) ==
  LET ranks == {i \in 1..Len(retrieved) : retrieved[i] \in relevant}
  IN IF ranks = {}
       THEN Zero
       ELSE Div(1, CHOOSE i \in ranks : \A j \in ranks : j <= i)

\* The loop of lines 292-296: enumerate() counts from 0, the model's positions
\* from 1, so 1.0 / (i + 1) is one over the model's position.
Mrr(retrieved, relevant) ==
  LET ranks == {i \in 1..Len(retrieved) : retrieved[i] \in relevant}
  IN IF ranks = {}
       THEN Zero
       ELSE Div(1, CHOOSE i \in ranks : \A j \in ranks : i <= j)

\* Faulty variant: positions discounted as if enumerate() counted from 1.
RECURSIVE DcgFromRankOne(_, _, _)
DcgFromRankOne(ids, relevant, i) ==
  IF i > Len(ids)
    THEN 0
    ELSE (IF ids[i] \in relevant THEN Discount(i) ELSE 0)
           + DcgFromRankOne(ids, relevant, i + 1)

\* Sum of the discounts of the relevant positions of ids, from position i on.
RECURSIVE DcgFrom(_, _, _)
DcgFrom(ids, relevant, i) ==
  IF i > Len(ids)
    THEN 0
    ELSE (IF ids[i] \in relevant THEN Discount(i - 1) ELSE 0)
           + DcgFrom(ids, relevant, i + 1)

\* sum(1 / math.log2(i + 2) for i in range(n))
RECURSIVE Idcg(_)
Idcg(n) == IF n = 0 THEN 0 ELSE Idcg(n - 1) + Discount(n - 1)

_calculate_ndcg(retrieved, relevant, kk) ==
  LET dcg == DcgFrom(SubSeq(retrieved, 1, Min(kk, Len(retrieved))), relevant, 1)
      num_relevant == Min(Cardinality(relevant), kk)
      idcg == Idcg(num_relevant)
  IN IF idcg > 0 THEN Div(dcg, idcg) ELSE Zero

RetrievalMetrics(precision, recall, recall_capped, mrr, ndcg, hit, relevant_count) ==
  [precision |-> precision, recall |-> recall, recall_capped |-> recall_capped,
   mrr |-> mrr, ndcg |-> ndcg, hit |-> hit, relevant_count |-> relevant_count]

compute_retrieval_metrics(retrieved, relevant) ==
  LET kk == Len(retrieved)
      hits == relevant_retrieved(retrieved, relevant)
  IN RetrievalMetrics(Precision(hits, kk),
                      Recall(hits, relevant),
                      RecallCapped(hits, kk, relevant),
                      Mrr(retrieved, relevant),
                      _calculate_ndcg(retrieved, relevant, kk),
                      Hit(retrieved, relevant),
                      Cardinality(relevant))

RatioFields == {"precision", "recall", "recall_capped", "mrr", "ndcg"}

\* A division by zero anywhere in the call ends it with ZeroDivisionError.
MetricsOutcome(m) ==
  IF \E f \in RatioFields : m[f].d = 0
    THEN [kind |-> "raised", type |-> "ZeroDivisionError"]
    ELSE [kind |-> "returned", value |-> m]

ComputeMetrics ==
  /\ metrics.kind = "pending"
  /\ metrics' = MetricsOutcome(compute_retrieval_metrics(retrieved_ids, relevant_ids))
  /\ UNCHANGED <<retrieved_ids, relevant_ids>>
  /\ UNCHANGED ground_truth_vars
  /\ UNCHANGED retrieval_vars
  /\ UNCHANGED builder_vars
  /\ UNCHANGED app_vars

\* Retrieval metrics: any ordered list of ids, repeats allowed, any relevant set.
InitMetrics ==
  /\ retrieved_ids \in SeqsUpTo(DocIds, MaxRetrieved)
  /\ relevant_ids \in SUBSET DocIds
  /\ metrics = [kind |-> "pending"]
  /\ GroundTruthIdle
  /\ BuilderIdle
  /\ RetrievalIdle
  /\ AppIdle

NextMetrics == ComputeMetrics

SpecMetrics == InitMetrics /\ [][NextMetrics]_vars

(***************************************************************************)
(* Claims about the retrieval metrics (checked under SpecMetrics).         *)
(***************************************************************************)
MetricsReturned == metrics.kind = "returned"

InUnitRange(r) == RatLe(Zero, r) /\ RatLe(r, One)

\* C13: for every ordered list of retrieved ids, repeats allowed, and every
\* set of relevant ids, compute_retrieval_metrics returns, and precision,
\* recall, recall_capped, mrr and ndcg all lie in [0, 1] while relevant_count
\* is the size of the relevant set.
C13_MetricsInUnitRange ==
  /\ metrics.kind # "raised"
  /\ MetricsReturned =>
       /\ \A f \in RatioFields : InUnitRange(metrics.value[f])
       /\ metrics.value.relevant_count = Cardinality(relevant_ids)

\* retrieved == list(relevant): every relevant id listed once, nothing else.
IsListingOf(retrieved, relevant) ==
  /\ Len(retrieved) = Cardinality(relevant)
  /\ {retrieved[i] : i \in 1..Len(retrieved)} = relevant

\* C14: when the retrieved list is non-empty and is exactly the relevant set
\* listed once each, precision, recall, recall_capped, mrr and ndcg are all
\* 1.0 and hit is true.
C14_PerfectRetrieval ==
  (Len(retrieved_ids) > 0 /\ IsListingOf(retrieved_ids, relevant_ids)) =>
    /\ metrics.kind # "raised"
    /\ MetricsReturned =>
         /\ \A f \in RatioFields : RatEq(metrics.value[f], One)
         /\ metrics.value.hit = TRUE

C14_Witness ==
  /\ MetricsReturned
  /\ retrieved_ids = <<"b", "x", "a">>
  /\ relevant_ids = {"a", "b", "x"}
  /\ RatEq(metrics.value.ndcg, One)

SomeRetrievedRelevant ==
  {retrieved_ids[i] : i \in 1..Len(retrieved_ids)} \cap relevant_ids # {}

HitFields == {"precision", "recall", "mrr", "ndcg"}

\* C15: hit is true exactly when some retrieved id is relevant; when the
\* retrieved ids and the relevant ids are disjoint and both non-empty,
\* precision, recall, mrr and ndcg are 0.0 and hit is false; and whenever
\* hit is true, precision, recall, mrr and ndcg are all strictly positive.
C15_HitAndDisjoint ==
  MetricsReturned =>
    /\ metrics.value.hit <=> SomeRetrievedRelevant
    /\ (Len(retrieved_ids) > 0 /\ relevant_ids # {} /\ ~SomeRetrievedRelevant) =>
         /\ \A f \in HitFields : RatEq(metrics.value[f], Zero)
         /\ metrics.value.hit = FALSE
    /\ metrics.value.hit =>
         \A f \in HitFields : RatLt(Zero, metrics.value[f])

\* A partial hit: one relevant id retrieved in second place among misses.
C15_Witness ==
  /\ MetricsReturned
  /\ retrieved_ids = <<"x", "a", "y">>
  /\ relevant_ids = {"a", "b"}
  /\ metrics.value.hit = TRUE
  /\ RatLt(Zero, metrics.value.ndcg)

\* C16: compute_retrieval_metrics never divides by zero, and with an empty
\* retrieved list, an empty relevant set, or both, it returns precision,
\* recall, recall_capped, mrr and ndcg all 0.0 and hit false.
C16_DegenerateInputs ==
  /\ metrics.kind # "raised"
  /\ metrics.kind = "pending" => ENABLED ComputeMetrics
  /\ (MetricsReturned /\ (Len(retrieved_ids) = 0 \/ relevant_ids = {})) =>
       /\ \A f \in RatioFields : RatEq(metrics.value[f], Zero)
       /\ metrics.value.hit = FALSE

C16_Witness ==
  /\ MetricsReturned
  /\ retrieved_ids = <<>>
  /\ relevant_ids = {}
  /\ metrics.value.hit = FALSE
  /\ metrics.value.relevant_count = 0

\* Position i (counted from 1) holds the first retrieved id that is relevant.
IsFirstRelevant(retrieved, relevant, i) ==
  /\ i \in 1..Len(retrieved)
  /\ retrieved[i] \in relevant
  /\ \A j \in 1..(i - 1) : retrieved[j] \notin relevant

\* C17: mrr is one over the rank, counted from 1, of the first retrieved id
\* that is relevant, and 0 when no retrieved id is relevant; the ids after
\* that first one, relevant or not, do not change it.
C17_MrrFirstRelevant ==
  MetricsReturned =>
    /\ ~SomeRetrievedRelevant => RatEq(metrics.value.mrr, Zero)
    /\ \A i \in 1..Len(retrieved_ids) :
         IsFirstRelevant(retrieved_ids, relevant_ids, i) =>
           /\ RatEq(metrics.value.mrr, Div(1, i))
           /\ \A j \in i..Len(retrieved_ids) :
                RatEq(Mrr(SubSeq(retrieved_ids, 1, j), relevant_ids),
                      metrics.value.mrr)

\* First relevant id in second place, another relevant id after it.
C17_Witness ==
  /\ MetricsReturned
  /\ retrieved_ids = <<"x", "a", "b">>
  /\ relevant_ids = {"a", "b"}
  /\ RatEq(metrics.value.mrr, Div(1, 2))

\* The list holds the one relevant id exactly once, at position i (from 1).
SoleHitAt(retrieved, relevant, i) ==
  /\ Cardinality(relevant) = 1
  /\ {p \in 1..Len(retrieved) : retrieved[p] \in relevant} = {i}

\* C18: with a single relevant id and a retrieved list of fixed length K that
\* contains it once, nDCG is strictly smaller for every list of the same
\* length whose sole hit stands later, and nDCG is 1.0 exactly when the hit
\* is first.
C18_NdcgDecreasesWithRank ==
  MetricsReturned =>
    \A i \in 1..Len(retrieved_ids) :
      SoleHitAt(retrieved_ids, relevant_ids, i) =>
        /\ RatEq(metrics.value.ndcg, One) <=> i = 1
        /\ \A later \in [1..Len(retrieved_ids) -> DocIds] :
             \A j \in (i + 1)..Len(retrieved_ids) :
               SoleHitAt(later, relevant_ids, j) =>
                 RatLt(_calculate_ndcg(later, relevant_ids, Len(later)),
                       metrics.value.ndcg)

\* Sole hit in second place of three: below 1.0, and a later place exists.
C18_Witness ==
  /\ MetricsReturned
  /\ retrieved_ids = <<"x", "a", "y">>
  /\ relevant_ids = {"a"}
  /\ RatLt(metrics.value.ndcg, One)
  /\ RatLt(_calculate_ndcg(<<"x", "y", "a">>, relevant_ids, 3), metrics.value.ndcg)

\* C19: recall_capped is at least recall whenever there are more relevant ids
\* than retrieved ids; and with a non-empty retrieved list of length K and a
\* non-empty relevant set, recall_capped is the number of retrieved ids that
\* are relevant (entries of the list, as the code counts them) divided by
\* min(K, |relevant|).
C19_RecallCapped ==
  MetricsReturned =>
    /\ Cardinality(relevant_ids) > Len(retrieved_ids) =>
         RatLe(metrics.value.recall, metrics.value.recall_capped)
    /\ (Len(retrieved_ids) > 0 /\ relevant_ids # {}) =>
         RatEq(metrics.value.recall_capped,
               Div(Cardinality({p \in 1..Len(retrieved_ids) :
                                  retrieved_ids[p] \in relevant_ids}),
                   IF Len(retrieved_ids) <= Cardinality(relevant_ids)
                     THEN Len(retrieved_ids)
                     ELSE Cardinality(relevant_ids)))

\* More relevant ids than retrieved ones, one of them retrieved: recall is
\* 1/3 and capped recall 1/2.
C19_Witness ==
  /\ MetricsReturned
  /\ retrieved_ids = <<"a", "x">>
  /\ relevant_ids = {"a", "b", "y"}
  /\ RatEq(metrics.value.recall, Div(1, 3))
  /\ RatEq(metrics.value.recall_capped, Div(1, 2))

(***************************************************************************)
(* eval_core: ground-truth filter builder.  The expected-properties dict   *)
(* is the sequence of its items in insertion order, each item a record     *)
(* [key, value]; keys are distinct.                                        *)
(***************************************************************************)
MatchValue(value) == [value |-> value]
MatchAny(any) == [any |-> any]
RangeGte(gte) == [gte |-> Some(gte), lt |-> None, gt |-> None, lte |-> None]
RangeLte(lte) == [gte |-> None, lt |-> None, gt |-> None, lte |-> Some(lte)]

\* qdrant_models.Filter(should=[...]): an OR group, must and must_not unset.
ShouldFilter(should) == [should |-> Some(should), must |-> None, must_not |-> None]

\* INGREDIENT_CATEGORIES.get(lower, [])
IngredientCategory(lower) ==
  CASE lower = "meat" ->
         <<"chicken", "beef", "pork", "lamb", "steak", "turkey", "salami",
           "ham", "bacon", "sausage", "duck", "mince">>
    [] lower = "fish" ->
         <<"salmon", "tuna", "cod", "hake", "bass", "trout", "sardine",
           "mackerel">>
    [] lower = "seafood" ->
         <<"shrimp", "prawn", "crab", "lobster", "mussel", "clam", "squid",
           "octopus">>
    [] lower = "vegetable" ->
         <<"carrot", "leek", "onion", "pepper", "broccoli", "cauliflower",
           "spinach", "cabbage", "zucchini", "aubergine", "eggplant",
           "potato", "tomato", "cucumber", "lettuce", "pea", "bean">>
    [] OTHER -> <<>>

\* Faulty variant: the category is looked up under the name as written.
ExpandIngredientCaseSensitive(name) ==
  <<Lower(name)>> \o IngredientCategory(name)

_expand_ingredient(name) ==
  LET lower == Lower(name) IN <<lower>> \o IngredientCategory(lower)

IngredientLeaf(c) == FieldCondition("normalized_ingredients", Some(MatchText(c)), None)

\* lines 108-122: one OR group per required ingredient
MustHaveConditions(value) ==
  [j \in 1..Len(value) |->
     LET candidates == _expand_ingredient(value[j])
     IN ShouldFilter([c \in 1..Len(candidates) |-> IngredientLeaf(candidates[c])])]

\* Faulty variant: the forbidden names themselves only, no synonyms.
MustNotHaveConditionsNameOnly(value) ==
  [j \in 1..Len(value) |-> IngredientLeaf(Lower(value[j]))]

\* lines 125-133: one leaf per candidate of every forbidden ingredient
RECURSIVE MustNotHaveConditions(_)
MustNotHaveConditions(value) ==
  IF value = <<>>
    THEN <<>>
    ELSE LET candidates == _expand_ingredient(Head(value))
         IN [c \in 1..Len(candidates) |-> IngredientLeaf(candidates[c])]
              \o MustNotHaveConditions(Tail(value))

\* The conditions one item appends to `must` (the if / elif chain, lines 106-209).
MustConditionsFor(key, value) ==
  CASE key = "must_have_ingredients" -> MustHaveConditions(value)
    [] key = "is_healthy" ->
         <<FieldCondition("is_healthy", Some(MatchValue(value)), None)>>
    [] key = "min_rating" ->
         <<FieldCondition("rating", None, Some(RangeGte(value)))>>
    [] key = "max_total_time_minutes" ->
         <<FieldCondition("total_time_minutes", None, Some(RangeLte(value)))>>
    [] key = "max_ingredient_count" ->
         <<FieldCondition("ingredient_count", None, Some(RangeLte(value)))>>
    [] key = "tools" ->
         <<FieldCondition("tools", Some(MatchAny(LowerAll(value))), None)>>
    [] key = "method" ->
         <<FieldCondition("method", Some(MatchAny(LowerAll(value))), None)>>
    [] key = "recipeCategory" ->
         <<FieldCondition("category", Some(MatchAny(LowerAll(value))), None)>>
    [] OTHER -> <<>>

\* The conditions one item appends to `must_not`.
MustNotConditionsFor(key, value) ==
  CASE key = "must_not_have_ingredients" -> MustNotHaveConditions(value)
    [] OTHER -> <<>>

\* The keys some branch of the chain names; every other key reaches the else.
HandledKeys ==
  {"must_have_ingredients", "must_not_have_ingredients", "is_healthy",
   "min_rating", "max_total_time_minutes", "max_ingredient_count", "tags",
   "tools", "method", "recipeCategory", "limit"}

\* lines 208-209: the keys logger.warning names while handling one item
WarningsFor(key) ==
  CASE key \in HandledKeys -> <<>>
    [] OTHER -> <<key>>

\* The loop of line 105 from item i on: the lists after the last item.
RECURSIVE GroundTruthLoop(_, _, _, _, _)
GroundTruthLoop(items, i, must, must_not, warnings) ==
  IF i > Len(items)
    THEN [must |-> must, must_not |-> must_not, warnings |-> warnings]
    ELSE GroundTruthLoop(items, i + 1,
                         must \o MustConditionsFor(items[i].key, items[i].value),
                         must_not \o MustNotConditionsFor(items[i].key, items[i].value),
                         warnings \o WarningsFor(items[i].key))

\* Faulty variant: no Filter when no condition was produced, as
\* vectordb._build_filters does.
GroundTruthResultNoneWhenBare(items, must, must_not) ==
  IF items = <<>> \/ (must = <<>> /\ must_not = <<>>)
    THEN None
    ELSE Some(Filter(IF must # <<>> THEN Some(must) ELSE None,
                     IF must_not # <<>> THEN Some(must_not) ELSE None))

\* lines 100-101 and 211-214: None for an empty dict, else the Filter with
\* `must or None` and `must_not or None`.
GroundTruthResult(items, must, must_not) ==
  IF items = <<>>
    THEN None
    ELSE Some(Filter(IF must # <<>> THEN Some(must) ELSE None,
                     IF must_not # <<>> THEN Some(must_not) ELSE None))

build_ground_truth_filters(items) ==
  LET end == GroundTruthLoop(items, 1, <<>>, <<>>, <<>>)
  IN GroundTruthResult(items, end.must, end.must_not)

\* The warnings logged by the call; none when the dict is empty (line 101).
GroundTruthWarnings(items) == GroundTruthLoop(items, 1, <<>>, <<>>, <<>>).warnings

\* Keys and values of the expected-properties maps of the model.
GtIngredientNames == {"MEAT", "salmon"}

ExpectedValues(key) ==
  CASE key \in {"must_have_ingredients", "must_not_have_ingredients"} ->
         SeqsUpTo(GtIngredientNames, MaxReqs)
    [] key = "is_healthy" -> BOOLEAN
    [] key = "min_rating" -> {4}
    [] key = "max_total_time_minutes" -> {30}
    [] key = "max_ingredient_count" -> {5}
    [] key = "tags" -> {<<"vegetarian">>}
    [] key = "tools" -> {<<"Oven", "Pan">>}
    [] key = "method" -> {<<"Baked">>}
    [] key = "recipeCategory" -> {<<"Dinner">>}
    [] key = "limit" -> {10}
    [] key = "unknown_key" -> {"value"}
    [] key = "cuisine" -> {"italian"}

UnknownKeys == {"unknown_key", "cuisine"}
InertKeys == {"tags", "limit"}
ExpectedKeys == HandledKeys \cup UnknownKeys

ExpectedItems ==
  UNION {{[key |-> key, value |-> v] : v \in ExpectedValues(key)} : key \in ExpectedKeys}

ExpectedMaps ==
  {m \in SeqsUpTo(ExpectedItems, MaxKeys) :
     \A i, j \in 1..Len(m) : i # j => m[i].key # m[j].key}

BuildGroundTruthFilters ==
  /\ gt_filter.kind = "pending"
  /\ gt_filter' = [kind |-> "returned", value |-> build_ground_truth_filters(expected)]
  /\ gt_warnings' = GroundTruthWarnings(expected)
  /\ UNCHANGED expected
  /\ UNCHANGED metrics_vars
  /\ UNCHANGED retrieval_vars
  /\ UNCHANGED builder_vars
  /\ UNCHANGED app_vars

\* Ground-truth filters: any map of up to MaxKeys distinct keys.
InitGroundTruth ==
  /\ expected \in ExpectedMaps
  /\ gt_filter = [kind |-> "pending"]
  /\ gt_warnings = <<>>
  /\ MetricsIdle
  /\ BuilderIdle
  /\ RetrievalIdle
  /\ AppIdle

NextGroundTruth == BuildGroundTruthFilters

SpecGroundTruth == InitGroundTruth /\ [][NextGroundTruth]_vars

(***************************************************************************)
(* Claims about the ground-truth filter builder (checked under             *)
(* SpecGroundTruth).                                                       *)
(***************************************************************************)
GroundTruthReturned == gt_filter.kind = "returned"

ExpectedKeySet == {expected[i].key : i \in 1..Len(expected)}

IsInertOrUnknownItem(item) == item.key \in InertKeys \cup UnknownKeys
IsConditionItem(item) == ~IsInertOrUnknownItem(item)

\* C20: build_ground_truth_filters never raises; it returns None exactly when
\* the expected-properties map is empty; for a non-empty map whose keys are
\* all inert (tags, limit) or unknown it returns a Filter whose must and
\* must_not are both None; it logs a warning naming each unknown key, and
\* only those; and the inert and unknown items add no leaf: the leaves are
\* those of the map without them.
C20_InertAndUnknownKeys ==
  /\ gt_filter.kind # "raised"
  /\ gt_filter.kind = "pending" => ENABLED BuildGroundTruthFilters
  /\ GroundTruthReturned =>
       /\ gt_filter.value = None <=> expected = <<>>
       /\ (expected # <<>> /\ ExpectedKeySet \subseteq InertKeys \cup UnknownKeys) =>
            /\ gt_filter.value # None
            /\ Get(gt_filter.value).must = None
            /\ Get(gt_filter.value).must_not = None
       /\ {gt_warnings[w] : w \in 1..Len(gt_warnings)}
            = ExpectedKeySet \cap UnknownKeys
       /\ MustLeaves(gt_filter.value)
            = MustLeaves(build_ground_truth_filters(
                           SelectSeq(expected, IsConditionItem)))
       /\ MustNotLeaves(gt_filter.value)
            = MustNotLeaves(build_ground_truth_filters(
                              SelectSeq(expected, IsConditionItem)))

\* An inert key and an unknown key together: a Filter with nothing in it.
C20_Witness ==
  /\ GroundTruthReturned
  /\ Len(expected) = 2
  /\ ExpectedKeySet = {"tags", "unknown_key"}
  /\ gt_filter.value = Some(Filter(None, None))
  /\ gt_warnings = <<"unknown_key">>

\* The value stored under key in the expected map, <<>> when the key is absent.
ExpectedList(key) ==
  IF \E i \in 1..Len(expected) : expected[i].key = key
    THEN (CHOOSE item \in {expected[i] : i \in 1..Len(expected)} : item.key = key).value
    ELSE <<>>

CategoryKeys == {"meat", "fish", "seafood", "vegetable"}

\* [lowercase(r)] followed by the members of the category of that name, if any.
ExpectedCandidates(r) ==
  IF Lower(r) \in CategoryKeys
    THEN <<Lower(r)>> \o IngredientCategory(Lower(r))
    ELSE <<Lower(r)>>

\* The keys that each stand for one must leaf of their own.
SingleLeafKeys ==
  {"is_healthy", "min_rating", "max_total_time_minutes", "max_ingredient_count",
   "tools", "method", "recipeCategory"}

IsShouldGroup(leaf) == "should" \in DOMAIN leaf

IsIngredientTextLeaf(leaf, text) ==
  /\ "key" \in DOMAIN leaf
  /\ leaf.key = "normalized_ingredients"
  /\ leaf.match = Some([text |-> text])
  /\ leaf.range = None

\* C21: for must_have_ingredients = [r1..rn] the filter holds exactly n OR
\* groups among its must leaves, in order; the j-th is a should list of
\* text-match conditions on normalized_ingredients over lowercase(rj)
\* followed by the members of the category of that name when it is a
\* category key, and over lowercase(rj) alone otherwise.
C21_MustHaveGroups ==
  GroundTruthReturned =>
    LET reqs == ExpectedList("must_have_ingredients")
        groups == SelectSeq(MustLeaves(gt_filter.value), IsShouldGroup)
    IN /\ Len(groups) = Len(reqs)
       /\ Len(MustLeaves(gt_filter.value))
            = Len(reqs) + Cardinality(ExpectedKeySet \cap SingleLeafKeys)
       /\ \A j \in 1..Len(reqs) :
            LET cands == ExpectedCandidates(reqs[j])
                should == Get(groups[j].should)
            IN /\ groups[j].must = None /\ groups[j].must_not = None
               /\ Len(should) = Len(cands)
               /\ \A c \in 1..Len(cands) : IsIngredientTextLeaf(should[c], cands[c])
               /\ reqs[j] = "MEAT" => (cands[1] = "meat" /\ Len(cands) = 13)
               /\ reqs[j] = "salmon" => cands = <<"salmon">>

\* A category written in capitals and a plain ingredient, with another must
\* leaf in the same filter.
C21_Witness ==
  /\ GroundTruthReturned
  /\ ExpectedList("must_have_ingredients") = <<"MEAT", "salmon">>
  /\ Len(expected) = 2
  /\ expected[1].key = "is_healthy"
  /\ Len(MustLeaves(gt_filter.value)) = 3
  /\ Len(Get(MustLeaves(gt_filter.value)[2].should)) = 13

\* The candidates of every forbidden ingredient, one after the other.
RECURSIVE AllCandidates(_)
AllCandidates(names) ==
  IF names = <<>>
    THEN <<>>
    ELSE ExpectedCandidates(Head(names)) \o AllCandidates(Tail(names))

\* A recipe, given by its normalized ingredients, is excluded by the filter
\* when one of the must_not leaves matches it.
ExcludedByMustNot(ingredients) ==
  \E i \in 1..Len(MustNotLeaves(gt_filter.value)) :
    LET leaf == MustNotLeaves(gt_filter.value)[i]
    IN /\ "key" \in DOMAIN leaf
       /\ leaf.key = "normalized_ingredients"
       /\ leaf.match # None
       /\ Get(leaf.match).text \in ingredients

\* C22: for must_not_have_ingredients the must_not leaves are, in order, one
\* text-match condition on normalized_ingredients per candidate of every
\* forbidden ingredient (the same expansion as for must_have_ingredients), so
\* their number is the sum of the expansion sizes, one for 'salmon' and more
\* than one for 'MEAT', and a recipe holding any single candidate is excluded.
C22_MustNotLeaves ==
  GroundTruthReturned =>
    LET forb == ExpectedList("must_not_have_ingredients")
        cands == AllCandidates(forb)
        leaves == MustNotLeaves(gt_filter.value)
    IN /\ Len(leaves) = Len(cands)
       /\ \A c \in 1..Len(cands) :
            /\ IsIngredientTextLeaf(leaves[c], cands[c])
            /\ ExcludedByMustNot({cands[c]})
       /\ forb = <<"salmon">> => Len(leaves) = 1
       /\ forb = <<"MEAT">> => Len(leaves) > 1

\* A category and a plain ingredient forbidden together: 13 + 1 leaves, and
\* a chicken recipe is excluded.
C22_Witness ==
  /\ GroundTruthReturned
  /\ ExpectedList("must_not_have_ingredients") = <<"MEAT", "salmon">>
  /\ Len(MustNotLeaves(gt_filter.value)) = 14
  /\ ExcludedByMustNot({"chicken", "rice"})

(***************************************************************************)
(* service.create_mealie_rag_service, the factory every program of the     *)
(* repository builds its service with.                                     *)
(***************************************************************************)
\* config.SearchStrategy
SearchStrategies == {"simple", "multiquery"}

\* config.LLMProvider
LLMProviders == {"ollama", "openai"}

\* The settings objects the factory is given, by the attributes whose value
\* decides what it does: vectordb_url and vectordb_path (service.py:121-123;
\* "none" is None or '', "missing" an object without the attribute),
\* llm_provider (126-134), llm_api_key (130, a SecretStr or None) and
\* search_strategy (136).
SettingsObjects ==
  [vectordb_url : {"none", "set"},
   vectordb_path : {"missing", "none", "set"},
   llm_provider : LLMProviders \cup {"other"},
   llm_api_key : {"none", "set"},
   search_strategy : SearchStrategies]

\* The instances of config.Settings (config.py:22-60): the class declares
\* vectordb_url, vectordb_collection_name and vectordb_k and no
\* vectordb_path, llm_provider is validated as an LLMProvider, and
\* llm_api_key is a SecretStr or None (None by default).
ConfigSettings ==
  {o \in SettingsObjects :
     o.vectordb_path = "missing" /\ o.llm_provider \in LLMProviders}

\* service.py:136-146: the query builder chosen for the strategy
QueryBuilderFor(strategy) ==
  IF strategy = "multiquery" THEN "MultiQueryQueryBuilder" ELSE "DefaultQueryBuilder"

\* Faulty variant: simple retrieval whatever the strategy.
RetrieveResultsFnAlwaysSimple(strategy) == "retrieve_results_simple"

\* service.py:136-146: the retrieval function chosen for the strategy
RetrieveResultsFnFor(strategy) ==
  IF strategy = "multiquery" THEN "retrieve_results_rrf" ELSE "retrieve_results_simple"

\* service.py:136-155: the service returned, by the builder and the retrieval
\* function chosen for the strategy
ServiceFor(strategy) ==
  [error |-> None,
   search_strategy |-> strategy,
   query_builder |-> QueryBuilderFor(strategy),
   retrieve_results_fn |-> RetrieveResultsFnFor(strategy)]

\* The factory left with an exception of the given type.
FactoryRaises(type) ==
  [error |-> Some(type), search_strategy |-> "none", query_builder |-> "none",
   retrieve_results_fn |-> "none"]

\* vectordb.py:29-36, get_vector_db_client: a client for the path, else for
\* the url, else ValueError.
get_vector_db_client(url, path) ==
  IF path = "set" THEN "QdrantClient(path)"
  ELSE IF url = "set" THEN "QdrantClient(url)"
  ELSE "ValueError"

\* service.py:117-155: reading settings_obj.vectordb_path (line 122) raises
\* AttributeError on an object without it; get_vector_db_client raises
\* ValueError when neither url nor path is given; with OPENAI,
\* llm_api_key.get_secret_value() (line 130) raises AttributeError when the
\* key is None; a provider that is neither OLLAMA nor OPENAI raises
\* ValueError (line 134); otherwise the service.
create_mealie_rag_service(settings_obj) ==
  IF settings_obj.vectordb_path = "missing"
    THEN FactoryRaises("AttributeError")
  ELSE IF get_vector_db_client(settings_obj.vectordb_url,
                               settings_obj.vectordb_path) = "ValueError"
    THEN FactoryRaises("ValueError")
  ELSE IF settings_obj.llm_provider = "ollama"
    THEN ServiceFor(settings_obj.search_strategy)
  ELSE IF settings_obj.llm_provider = "openai"
    THEN IF settings_obj.llm_api_key = "none"
           THEN FactoryRaises("AttributeError")
           ELSE ServiceFor(settings_obj.search_strategy)
  ELSE FactoryRaises("ValueError")

\* Where a program gets its service from: the factory called with
\* config.settings, as the source has it, or an object put in its place by
\* the caller (the tests patch the module's service and the factory).
ServiceSources == {"create_mealie_rag_service", "stand_in"}

\* The service a program starts with raises at construction.
ServiceFails(service_from, settings_obj) ==
  /\ service_from = "create_mealie_rag_service"
  /\ create_mealie_rag_service(settings_obj).error # None

(***************************************************************************)
(* Evaluation harness, CSV backend (evaluate.py).  The service, the judge  *)
(* metrics and the vector index are collaborators: for each row they are   *)
(* given by the stage that raises when it is called ("none" when no stage  *)
(* raises) and by the hits retrieval returns.                              *)
(***************************************************************************)
\* The calls of evaluate_service that can raise, in the order of lines 83-109.
CsvStages ==
  <<"generate_queries", "retrieve_recipes", "populate_messages", "chat",
    "parse_expected_properties", "get_relevant_ids", "relevancy",
    "faithfulness">>

\* The calls made to collaborators (the service, the index, the judge).
CollaboratorStages ==
  {CsvStages[n] : n \in 1..Len(CsvStages)} \ {"parse_expected_properties"}

StageNo(stage) ==
  IF stage = "none"
    THEN Len(CsvStages) + 1
    ELSE CHOOSE n \in 1..Len(CsvStages) : CsvStages[n] = stage

HitLists == {<<>>, <<"a", "x">>}

Upstreams ==
  [fails : CollaboratorStages \cup {"none"},
   hits : HitLists]

\* The payload field is_healthy of the points of the collection.
HealthyIds == {"a", "b"}

\* The vector index: whether a point satisfies one condition of a filter.
ConditionMatches(id, leaf) ==
  CASE leaf.key = "is_healthy" -> (id \in HealthyIds) = Get(leaf.match).value

\* The vector index: the ids of the points a filter selects.  A filter with
\* neither must nor must_not selects every point.
MatchingIds(filter) ==
  {id \in DocIds :
     /\ \A i \in 1..Len(MustLeaves(Some(filter))) :
          ConditionMatches(id, MustLeaves(Some(filter))[i])
     /\ \A i \in 1..Len(MustNotLeaves(Some(filter))) :
          ~ConditionMatches(id, MustNotLeaves(Some(filter))[i])}

\* The value of an expected_properties cell: None, a dict or a str.
RawNone == [kind |-> "None"]
RawDict(map) == [kind |-> "dict", value |-> map]
RawStr(text) == [kind |-> "str", text |-> text]

\* ast.literal_eval on the strings the model uses: the literal, or
\* ValueError / SyntaxError.
literal_eval(text) ==
  CASE text = "{'is_healthy': True}" ->
         [kind |-> "dict", value |-> <<[key |-> "is_healthy", value |-> TRUE]>>]
    [] text = "{'must_have_ingredients': ['chicken'], 'is_healthy': True}" ->
         [kind |-> "dict",
          value |-> <<[key |-> "must_have_ingredients", value |-> <<"chicken">>],
                      [key |-> "is_healthy", value |-> TRUE]>>]
    [] text = "{}" -> [kind |-> "dict", value |-> <<>>]
    [] text = "[1, 2, 3]" -> [kind |-> "list", value |-> <<1, 2, 3>>]
    [] text = "!!!not a dict at all!!!" -> [kind |-> "error", value |-> <<>>]

ParseReturns(map) == [raised |-> FALSE, value |-> map, error |-> None]
ParseRaises(msg) ==
  [raised |-> TRUE, value |-> <<>>,
   error |-> Some([type |-> "ValueError", msg |-> msg])]

\* eval_core.py:436-456
parse_expected_properties(raw) ==
  IF \/ raw.kind = "None"
     \/ (raw.kind = "str" /\ raw.text = "")
     \/ (raw.kind = "dict" /\ raw.value = <<>>)
    THEN ParseReturns(<<>>)
  ELSE IF raw.kind = "dict"
    THEN ParseReturns(raw.value)
  ELSE LET result == literal_eval(raw.text)
       IN IF result.kind = "error"
            THEN ParseRaises(<<"Could not parse expected_properties: ", raw.text>>)
          ELSE IF result.kind # "dict"
            THEN ParseRaises(<<"expected_properties must be a dict, got ",
                               result.kind, ": ", raw.text>>)
          ELSE ParseReturns(result.value)

\* The expected_properties of the rows of the model's datasets.
RowExpected ==
  {RawNone,
   RawDict(<<[key |-> "tags", value |-> <<"vegetarian">>]>>),
   RawDict(<<[key |-> "is_healthy", value |-> TRUE]>>),
   RawStr("{'is_healthy': True}"),
   RawStr("[1, 2, 3]")}

Rows == [question : {"q"}, expected_properties : RowExpected]

\* lines 112-114: error = str(e) for the exception of the stage that raised
RowError(failed) == IF failed = "none" THEN None ELSE Some(failed)

\* One field of the retrieval part of a row result (lines 131-141).
RetrievalField(retrieval, field) ==
  IF retrieval = None THEN None ELSE Some(Get(retrieval)[field])

\* line 90: the row's expected properties parsed
RowParsed(row) == parse_expected_properties(row.expected_properties)

\* lines 90-91: the ground-truth filter of a row whose cell parses
RowGroundTruth(row) ==
  IF RowParsed(row).raised
    THEN None
    ELSE build_ground_truth_filters(RowParsed(row).value)

\* The call of evaluate_service that raised for this row: the one the
\* collaborators fail if it is part of the pipeline (lines 83-87); after the
\* pipeline parse_expected_properties if the cell does not parse (line 90);
\* else the one the collaborators fail, unless it is get_relevant_ids and the
\* row has no ground-truth filter, in which case that call is never made
\* (lines 92-96).
CsvFailed(row, up) ==
  IF up.fails # "none" /\ StageNo(up.fails) <= 4
    THEN up.fails
  ELSE IF RowParsed(row).raised
    THEN "parse_expected_properties"
  ELSE IF up.fails = "get_relevant_ids" /\ RowGroundTruth(row) = None
    THEN "none"
  ELSE up.fails

evaluate_service(row, up) ==
  LET g == StageNo(CsvFailed(row, up))
      \* lines 83-87
      extraction == IF g > 1 THEN Some(PassThrough(row.question)) ELSE None
      hits == IF g > 2 THEN up.hits ELSE <<>>
      answer == IF g > 4 THEN "answer" ELSE ""
      \* lines 90-101
      retrieval ==
        IF g > 6 /\ RowGroundTruth(row) # None
          THEN Some(compute_retrieval_metrics(
                      hits, MatchingIds(Get(RowGroundTruth(row)))))
          ELSE None
      \* lines 104-110
      relevancy_result == IF g > 7 THEN Some(5) ELSE None
      faithfulness_result == IF g > 8 THEN Some("faithful") ELSE None
      \* lines 112-114
      error == RowError(CsvFailed(row, up))
  IN [question |-> row.question,
      expected_properties |-> row.expected_properties,
      response |-> answer,
      relevancy_score |-> relevancy_result,
      faithfulness_score |-> faithfulness_result,
      retrieval_precision |-> RetrievalField(retrieval, "precision"),
      retrieval_recall |-> RetrievalField(retrieval, "recall"),
      retrieval_recall_capped |-> RetrievalField(retrieval, "recall_capped"),
      retrieval_mrr |-> RetrievalField(retrieval, "mrr"),
      retrieval_ndcg |-> RetrievalField(retrieval, "ndcg"),
      retrieval_hit |-> RetrievalField(retrieval, "hit"),
      retrieval_relevant_count |-> RetrievalField(retrieval, "relevant_count"),
      query_extraction |-> extraction,
      success |-> error = None,
      error |-> error]

\* What the collaborators did for a row, with the calls that raised.
UpstreamRecord(up, raised) == [fails |-> up.fails, hits |-> up.hits, raised |-> raised]

\* evaluate_service.arun: one row evaluated, its result collected.
EvaluateRow ==
  /\ harness = "csv"
  /\ run_state = "running"
  /\ Len(results) < Len(dataset)
  /\ \E up \in Upstreams :
       LET row == dataset[Len(results) + 1]
       IN /\ results' = Append(results, evaluate_service(row, up))
          /\ upstream' = Append(upstream,
               UpstreamRecord(up, IF CsvFailed(row, up) = "none"
                                    THEN <<>>
                                    ELSE <<CsvFailed(row, up)>>))
  /\ UNCHANGED <<harness, dataset, run_state, summary, saved>>
  /\ UNCHANGED retrieval_vars
  /\ UNCHANGED builder_vars
  /\ UNCHANGED eval_vars
  /\ UNCHANGED frontend_vars
  /\ UNCHANGED scroll_vars
  /\ UNCHANGED service_vars

RetrievalKeys ==
  {"retrieval_precision", "retrieval_recall", "retrieval_recall_capped",
   "retrieval_mrr", "retrieval_ndcg", "retrieval_hit"}

SummaryKeys == RetrievalKeys \cup {"relevancy_score", "faithfulness_score"}

\* [r[key] for r in experiment_results if r.get(key) is not None], as the
\* numbers of the rows whose value is taken.
MeanInputs(rs, key) == {i \in 1..Len(rs) : rs[i][key] # None}

\* The values of a key in the rows that have one, in row order.
RECURSIVE ValuesOf(_, _)
ValuesOf(rs, key) ==
  IF rs = <<>> THEN <<>>
  ELSE (IF Head(rs)[key] # None THEN <<Get(Head(rs)[key])>> ELSE <<>>)
         \o ValuesOf(Tail(rs), key)

\* eval_core.py:431-433: sum(values) / len(values), 0.0 for no values.  The
\* sum is kept as its addends.
mean(values) ==
  IF values = <<>>
    THEN [sum |-> <<>>, len |-> 1, times |-> 1]
    ELSE [sum |-> values, len |-> Len(values), times |-> 1]

\* lines 204-212: faithful_count / total_faithfulness * 100, 0 for no values
FaithfulnessRate(rs) ==
  LET values == ValuesOf(rs, "faithfulness_score")
      faithful == {i \in DOMAIN values : values[i] = "faithful"}
  IN IF values = <<>> THEN Zero ELSE Div(Cardinality(faithful) * 100, Len(values))

\* lines 221-229: the mean of a retrieval field; the hit rate is the mean
\* times 100
MeanRetrieval(rs, key) ==
  [mean(ValuesOf(rs, key)) EXCEPT !.times = IF key = "retrieval_hit" THEN 100 ELSE 1]

\* lines 249-276: the summary row appended to the row results
SummaryRow(rs) ==
  [id |-> -1,
   response |-> "",
   relevancy_score |-> Some(mean(ValuesOf(rs, "relevancy_score"))),
   faithfulness_score |-> Some(FaithfulnessRate(rs)),
   retrieval_precision |-> Some(MeanRetrieval(rs, "retrieval_precision")),
   retrieval_recall |-> Some(MeanRetrieval(rs, "retrieval_recall")),
   retrieval_recall_capped |-> Some(MeanRetrieval(rs, "retrieval_recall_capped")),
   retrieval_mrr |-> Some(MeanRetrieval(rs, "retrieval_mrr")),
   retrieval_ndcg |-> Some(MeanRetrieval(rs, "retrieval_ndcg")),
   retrieval_hit |-> Some(MeanRetrieval(rs, "retrieval_hit")),
   retrieval_relevant_count |-> None,
   query_extraction |-> Some(""),
   success |-> TRUE,
   error |-> None]

\* run_experiment, step 5 (lines 203-277): the summary figures are computed
\* over the row results, the summary row is appended to them and the whole
\* is saved.
Summarise ==
  /\ harness = "csv"
  /\ run_state = "running"
  /\ Len(results) = Len(dataset)
  /\ summary' = [kind |-> "done",
                 inputs |-> [key \in SummaryKeys |-> MeanInputs(results, key)]]
  /\ results' = Append(results, SummaryRow(results))
  /\ saved' = Some(results')
  /\ run_state' = "done"
  /\ UNCHANGED <<harness, dataset, upstream>>
  /\ UNCHANGED retrieval_vars
  /\ UNCHANGED builder_vars
  /\ UNCHANGED eval_vars
  /\ UNCHANGED frontend_vars
  /\ UNCHANGED scroll_vars
  /\ UNCHANGED service_vars

(***************************************************************************)
(* Evaluation harness, Langfuse backend (langfuse_evaluate.py).  The row   *)
(* task is evaluate_item; the metrics are computed afterwards by the       *)
(* evaluators, which the Langfuse SDK calls with the task's output.        *)
(***************************************************************************)
\* lines 77-111: the pipeline inside the try block, then the output dict
evaluate_item(item, up) ==
  LET f == Min(StageNo(up.fails), 5)
      error == IF f < 5 THEN Some(up.fails) ELSE None
  IN [question |-> item.question,
      response |-> IF f > 4 THEN "answer" ELSE "",
      retrieved_ids |-> IF f > 2 THEN up.hits ELSE <<>>,
      query_extraction |-> IF f > 1 THEN Some(PassThrough(item.question)) ELSE None,
      success |-> error = None,
      error |-> error]

\* lines 114-140: the judge evaluators raise when the judge metric does
JudgeEvaluatorRaises(output, up, name) == output.success /\ up.fails = name

\* lines 142-165: retrieval_evaluator returns [] for a failed task; a cell
\* that does not parse raises (line 153); a row without ground-truth filter
\* returns []; otherwise get_relevant_ids is called, and
\* either it raises or its result, a set, is asked for .keys(), which
\* raises AttributeError.
RetrievalEvaluatorRaised(item, output, up) ==
  IF ~output.success
    THEN <<>>
  ELSE IF RowParsed(item).raised
    THEN <<"parse_expected_properties">>
  ELSE IF RowGroundTruth(item) = None
    THEN <<>>
  ELSE IF up.fails = "get_relevant_ids"
    THEN <<"get_relevant_ids">>
  ELSE <<"relevant_id_to_slug.keys">>

\* The evaluators that raised for an item, in the order they are called.
EvaluatorsRaised(item, output, up) ==
  (IF JudgeEvaluatorRaises(output, up, "relevancy") THEN <<"relevancy">> ELSE <<>>)
    \o (IF JudgeEvaluatorRaises(output, up, "faithfulness")
          THEN <<"faithfulness">> ELSE <<>>)
    \o RetrievalEvaluatorRaised(item, output, up)

\* The evaluations attached to an item: those of the evaluators that returned
\* one.  retrieval_evaluator never returns any (it returns [] or raises).
ItemEvaluations(item, output, up) ==
  IF ~output.success
    THEN <<>>
    ELSE (IF up.fails = "relevancy" THEN <<>> ELSE <<"relevancy">>)
           \o (IF up.fails = "faithfulness" THEN <<>> ELSE <<"faithfulness">>)

\* run_experiment of the SDK: one item run through the task and the
\* evaluators.  What the SDK does with an exception of an evaluator is not
\* part of the repository: it may go on with the next item or end the run.
EvaluateItem ==
  /\ harness = "langfuse"
  /\ run_state = "running"
  /\ Len(results) < Len(dataset)
  /\ \E up \in Upstreams, sdk_goes_on \in BOOLEAN :
       LET item == dataset[Len(results) + 1]
           output == evaluate_item(item, up)
           raised == EvaluatorsRaised(item, output, up)
       IN /\ results' = Append(results,
                          [output |-> output,
                           evaluations |-> ItemEvaluations(item, output, up)])
          /\ upstream' = Append(upstream,
               UpstreamRecord(up, (IF output.success THEN <<>> ELSE <<up.fails>>)
                                    \o raised))
          /\ run_state' = IF raised # <<>> /\ ~sdk_goes_on
                            THEN "aborted"
                            ELSE "running"
  /\ UNCHANGED <<harness, dataset, summary, saved>>
  /\ UNCHANGED retrieval_vars
  /\ UNCHANGED builder_vars
  /\ UNCHANGED eval_vars
  /\ UNCHANGED frontend_vars
  /\ UNCHANGED scroll_vars
  /\ UNCHANGED service_vars

\* lines 287-291: the experiment is complete, its summary printed
FinishExperiment ==
  /\ harness = "langfuse"
  /\ run_state = "running"
  /\ Len(results) = Len(dataset)
  /\ run_state' = "done"
  /\ summary' = [kind |-> "done",
                 inputs |-> [key \in {"faithfulness", "retrieval_hit"} |->
                               {i \in 1..Len(results) :
                                  \E e \in 1..Len(results[i].evaluations) :
                                    results[i].evaluations[e] = key}]]
  /\ UNCHANGED <<harness, dataset, results, upstream, saved>>
  /\ UNCHANGED retrieval_vars
  /\ UNCHANGED builder_vars
  /\ UNCHANGED eval_vars
  /\ UNCHANGED frontend_vars
  /\ UNCHANGED scroll_vars
  /\ UNCHANGED service_vars

\* eval_core.py:405-423: build_ragas_metrics reads PromptType.METRIC_RELEVANCY
\* (line 412), which raises AttributeError when the enum has no such member.
MetricsFail(metrics_from) ==
  /\ metrics_from = "build_ragas_metrics"
  /\ ~HasPromptType("METRIC_RELEVANCY")

\* eval_core.py:375-402, build_judge_llm: OLLAMA is refused with ValueError,
\* OPENAI builds the client and the judge (library calls, which raise or
\* not as the environment has it), any other provider is refused.
build_judge_llm(judge_provider, client_raises) ==
  IF judge_provider = "ollama" THEN "ValueError"
  ELSE IF judge_provider = "openai"
    THEN IF client_raises THEN "OpenAIError" ELSE "llm"
  ELSE "ValueError"

\* The library calls of the set-up, which raise or not as the environment
\* has it: the SDK client (langfuse_evaluate.py:53), the prompt manager
\* (evaluate.py:163, langfuse_evaluate.py:54), the dataset (evaluate.py:169,
\* langfuse_evaluate.py:58) and the judge's client (eval_core.py:386-402).
LibraryCalls(backend) ==
  (IF backend = "langfuse" THEN {"get_client"} ELSE {})
    \cup {"LangfusePromptManager", "load_dataset", "OpenAI"}

\* run_experiment up to the first row (evaluate.py:161-183,
\* langfuse_evaluate.py:51-66): the call that raises, if one does, in the
\* order the calls are made.  fails is the library call that raises, "none"
\* when none does.
SetUpRaised(fails, service_from, metrics_from, settings_obj, judge_provider) ==
  IF fails \in {"get_client", "LangfusePromptManager", "load_dataset"}
    THEN fails
  ELSE IF ServiceFails(service_from, settings_obj)
    THEN "create_mealie_rag_service"
  ELSE IF build_judge_llm(judge_provider, fails = "OpenAI") # "llm"
    THEN "build_judge_llm"
  ELSE IF MetricsFail(metrics_from)
    THEN "build_ragas_metrics"
  ELSE "none"

\* run_experiment up to the first row: the dataset is loaded, the service,
\* the judge and the judge metrics are set up.  judge_provider is
\* config.judge_provider, an LLMProvider (eval_core.py:363).  An exception
\* of the set-up ends the run before any row is evaluated.
SetUpRun ==
  /\ run_state = "setup"
  /\ \E fails \in LibraryCalls(harness) \cup {"none"},
        service_from \in ServiceSources,
        metrics_from \in {"build_ragas_metrics", "stand_in"},
        settings_obj \in ConfigSettings,
        judge_provider \in LLMProviders :
       LET raised == SetUpRaised(fails, service_from, metrics_from,
                                 settings_obj, judge_provider)
       IN /\ run_state' = IF raised = "none" THEN "running" ELSE "failed"
          /\ summary' = IF raised = "none"
                          THEN summary
                          ELSE [kind |-> "failed", raised |-> raised]
  /\ UNCHANGED <<harness, dataset, results, upstream, saved>>
  /\ UNCHANGED retrieval_vars
  /\ UNCHANGED builder_vars
  /\ UNCHANGED eval_vars
  /\ UNCHANGED frontend_vars
  /\ UNCHANGED scroll_vars
  /\ UNCHANGED service_vars

\* An evaluation run at its start: either backend, any dataset of up to
\* MaxRows rows.
InitHarness ==
  /\ harness \in {"csv", "langfuse"}
  /\ dataset \in SeqsUpTo(Rows, MaxRows)
  /\ results = <<>>
  /\ upstream = <<>>
  /\ run_state = "setup"
  /\ summary = [kind |-> "idle"]
  /\ saved = None
  /\ RetrievalIdle
  /\ BuilderIdle
  /\ EvalIdle
  /\ FrontEndIdle
  /\ ScrollIdle
  /\ ServiceIdle

NextHarness ==
  SetUpRun \/ EvaluateRow \/ Summarise \/ EvaluateItem \/ FinishExperiment

SpecHarness == InitHarness /\ [][NextHarness]_vars

(***************************************************************************)
(* Claims about the evaluation harness (checked under SpecHarness).        *)
(***************************************************************************)
\* The task result of row i: the row result itself (CSV) or the task output.
TaskResult(i) == IF harness = "csv" THEN results[i] ELSE results[i].output

\* C23: for every row, when a call of the row's pipeline (extraction,
\* retrieval, generation, metric computation) raised, the row's result is
\* still returned, with success false and error set to the text of that
\* exception; the run is not aborted and goes on to the remaining rows.
C23_RowFailureIsolated ==
  /\ run_state # "aborted"
  /\ Len(results) >= Len(upstream)
  /\ (run_state = "running" /\ Len(upstream) < Len(dataset)) =>
       ENABLED (EvaluateRow \/ EvaluateItem)
  /\ run_state = "done" => Len(upstream) = Len(dataset)
  /\ \A i \in 1..Len(upstream) :
       upstream[i].raised # <<>> =>
         /\ TaskResult(i).success = FALSE
         /\ TaskResult(i).error = Some(upstream[i].raised[1])

\* The map gives no filter condition: it is empty or all its keys are inert
\* or unknown.
NoFilterCondition(map) ==
  \A i \in 1..Len(map) : map[i].key \in InertKeys \cup UnknownKeys

\* C29: in the CSV harness the retrieval metrics of a row whose pipeline
\* succeeded are skipped exactly when its expected_properties give no filter
\* condition (an empty map, or only inert or unknown keys); and when they are
\* computed, the row has at least one real condition and the relevant ids
\* are the recipes satisfying its conditions, not the whole collection.
C29_MetricsSkippedWithoutCondition ==
  harness = "csv" =>
    \A i \in 1..Len(upstream) :
      results[i].success =>
        /\ results[i].retrieval_precision = None
             <=> NoFilterCondition(RowParsed(dataset[i]).value)
        /\ results[i].retrieval_relevant_count # None =>
             /\ ~NoFilterCondition(RowParsed(dataset[i]).value)
             /\ Get(results[i].retrieval_relevant_count) < Cardinality(DocIds)

\* C30: in the CSV run every row result with success false has all its
\* retrieval and generation metric fields None, so that each summary figure
\* is taken over rows whose whole pipeline succeeded.
C30_FailedRowsCarryNoMetrics ==
  harness = "csv" =>
    /\ \A i \in 1..Len(upstream) :
         ~results[i].success =>
           /\ \A key \in SummaryKeys : results[i][key] = None
           /\ results[i].retrieval_relevant_count = None
    /\ summary.kind = "done" =>
         \A key \in SummaryKeys :
           \A i \in summary.inputs[key] : results[i].success

(***************************************************************************)
(* Interactive front ends: the terminal loop (run_qa_cli) and the web UI   *)
(* (run_qa_ui).  Both run process_input for a user input; the CLI runs one *)
(* turn at a time (request 1), the UI serves its requests on threads that  *)
(* interleave.  The service is a collaborator whose calls return or raise. *)
(***************************************************************************)
NoHitsMessage(fe) ==
  IF fe = "cli"
    THEN "No relevant recipes found."
    ELSE "I couldn't find any relevant recipes."

Apology == "Sorry, I encountered an error talking to the AI."

\* One chunk of the streamed response.
Chunk == "par"

\* The positions at which a request is not inside process_input.
Ended == {"idle", "answered", "no_hits", "apologised", "raised", "interrupted"}

\* What a user types at the prompt.
TypedInputs == {"Quit", "exit", "   ", "vegan dinner"}

\* str.strip() on those inputs
Strip(s) == IF s = "   " THEN "" ELSE s

\* run_qa_cli.py:95: the input ends the loop.
IsExit(input) == Lower(input) \in {"exit", "quit"}

\* run_qa_cli.py:95-101: the input reaches process_input.  The UI hands
\* every message to process_input (run_qa_ui.py:103-104).
IsQuestion(fe, input) ==
  fe = "ui" \/ (~IsExit(input) /\ Strip(input) # "")

\* The requests a front end can run: the CLI one turn at a time.
Slots(fe) == IF fe = "cli" THEN {1} ELSE Requests

\* How a call made inside a turn ends: it returns, it raises an Exception,
\* or, at the terminal, Ctrl-C arrives while it runs (KeyboardInterrupt).
CallOutcomes(fe) ==
  IF fe = "cli" THEN {"returns", "raises", "interrupted"} ELSE {"returns", "raises"}

\* An exception leaving process_input: main catches KeyboardInterrupt only
\* (run_qa_cli.py:91-105), so the CLI ends with the exception; the UI
\* server keeps serving.
LoopAfterRaise(fe, state) ==
  IF fe = "cli" THEN "crashed" ELSE state

\* The loop after a call of the turn: KeyboardInterrupt is caught by main,
\* which leaves the loop (run_qa_cli.py:103-105).
LoopAfterCall(fe, state, outcome) ==
  CASE outcome = "returns" -> state
    [] outcome = "raises" -> LoopAfterRaise(fe, state)
    [] outcome = "interrupted" -> "ended"

\* The position of a request after a call that is outside any try block.
PcAfterCall(outcome, next) ==
  CASE outcome = "returns" -> next
    [] outcome = "raises" -> "raised"
    [] outcome = "interrupted" -> "interrupted"

\* The module is imported and main is entered: the service is built at
\* import (run_qa_cli.py:15, run_qa_ui.py:18), which raises when the factory
\* does; the CLI then leaves with sys.exit(1) when check_health is false
\* (run_qa_cli.py:86-89); the UI is launched (run_qa_ui.py:135-143).
StartUp ==
  /\ loop = "starting"
  /\ \E service_from \in ServiceSources, settings_obj \in ConfigSettings,
        healthy \in BOOLEAN :
       loop' = IF ServiceFails(service_from, settings_obj)
                 THEN "failed"
               ELSE IF frontend = "cli" /\ ~healthy
                 THEN "exited"
               ELSE "running"
  /\ UNCHANGED <<frontend, turns, trace_id, req_pc, req_own, req_links,
                 req_calls, req_out, req_hits, scores>>
  /\ UNCHANGED harness_vars
  /\ UNCHANGED scroll_vars
  /\ UNCHANGED service_vars
  /\ UNCHANGED retrieval_vars
  /\ UNCHANGED builder_vars
  /\ UNCHANGED eval_vars

\* A user input that is a question: the turn starts and records its trace id
\* in the shared trace context (run_qa_cli.py:34, run_qa_ui.py:43).  turns
\* counts the inputs read; a turn's own trace id is the number of its input.
StartTurn(r) ==
  /\ loop = "running"
  /\ r \in Slots(frontend)
  /\ req_pc[r] \in Ended
  /\ turns < MaxTurns
  /\ \E input \in TypedInputs : IsQuestion(frontend, input)
  /\ turns' = turns + 1
  /\ req_own' = [req_own EXCEPT ![r] = Some(turns')]
  /\ trace_id' = Some(turns')
  /\ req_pc' = [req_pc EXCEPT ![r] = "traced"]
  /\ req_links' = [req_links EXCEPT ![r] = <<>>]
  /\ req_calls' = [req_calls EXCEPT ![r] = <<>>]
  /\ req_out' = [req_out EXCEPT ![r] = <<>>]
  /\ req_hits' = [req_hits EXCEPT ![r] = <<>>]
  /\ UNCHANGED <<frontend, loop, scores>>
  /\ UNCHANGED harness_vars
  /\ UNCHANGED scroll_vars
  /\ UNCHANGED service_vars
  /\ UNCHANGED retrieval_vars
  /\ UNCHANGED builder_vars
  /\ UNCHANGED eval_vars

\* run_qa_ui.py:53: the trace link is built from trace_context.trace_id.
LinkTrace(r) ==
  /\ frontend = "ui"
  /\ req_pc[r] = "traced"
  /\ req_links' = [req_links EXCEPT ![r] = Append(@, trace_id)]
  /\ req_pc' = [req_pc EXCEPT ![r] = "linked"]
  /\ UNCHANGED <<frontend, loop, turns, trace_id, req_own, req_calls, req_out,
                 req_hits, scores>>
  /\ UNCHANGED harness_vars
  /\ UNCHANGED scroll_vars
  /\ UNCHANGED service_vars
  /\ UNCHANGED retrieval_vars
  /\ UNCHANGED builder_vars
  /\ UNCHANGED eval_vars

\* service.generate_queries (run_qa_cli.py:45, run_qa_ui.py:58)
Extract(r) ==
  /\ loop = "running"
  /\ req_pc[r] = IF frontend = "cli" THEN "traced" ELSE "linked"
  /\ \E outcome \in CallOutcomes(frontend) :
       /\ req_pc' = [req_pc EXCEPT ![r] = PcAfterCall(outcome, "extracted")]
       /\ loop' = LoopAfterCall(frontend, loop, outcome)
  /\ req_calls' = [req_calls EXCEPT ![r] = Append(@, "generate_queries")]
  /\ UNCHANGED <<frontend, turns, trace_id, req_own, req_links, req_out,
                 req_hits, scores>>
  /\ UNCHANGED harness_vars
  /\ UNCHANGED scroll_vars
  /\ UNCHANGED service_vars
  /\ UNCHANGED retrieval_vars
  /\ UNCHANGED builder_vars
  /\ UNCHANGED eval_vars

\* service.retrieve_recipes and the test for no hits (run_qa_cli.py:49-53,
\* run_qa_ui.py:63-67); an embedding failure is raised by this call.
Retrieve(r) ==
  /\ loop = "running"
  /\ req_pc[r] = "extracted"
  /\ req_calls' = [req_calls EXCEPT ![r] = Append(@, "retrieve_recipes")]
  /\ \E outcome \in CallOutcomes(frontend), hits \in HitLists :
       /\ loop' = LoopAfterCall(frontend, loop, outcome)
       /\ IF outcome = "returns"
            THEN /\ req_hits' = [req_hits EXCEPT ![r] = hits]
                 /\ req_pc' = [req_pc EXCEPT ![r] =
                                 IF hits = <<>> THEN "no_hits" ELSE "retrieved"]
                 /\ req_out' = [req_out EXCEPT ![r] =
                                  IF hits = <<>>
                                    THEN Append(@, NoHitsMessage(frontend))
                                    ELSE @]
            ELSE /\ req_pc' = [req_pc EXCEPT ![r] = PcAfterCall(outcome, "none")]
                 /\ UNCHANGED <<req_hits, req_out>>
  /\ UNCHANGED <<frontend, turns, trace_id, req_own, req_links, scores>>
  /\ UNCHANGED harness_vars
  /\ UNCHANGED scroll_vars
  /\ UNCHANGED service_vars
  /\ UNCHANGED retrieval_vars
  /\ UNCHANGED builder_vars
  /\ UNCHANGED eval_vars

\* run_qa_ui.py:69-77: the trace link under the hits table, again built
\* from trace_context.trace_id.
LinkHits(r) ==
  /\ frontend = "ui"
  /\ req_pc[r] = "retrieved"
  /\ req_links' = [req_links EXCEPT ![r] = Append(@, trace_id)]
  /\ req_pc' = [req_pc EXCEPT ![r] = "ready"]
  /\ UNCHANGED <<frontend, loop, turns, trace_id, req_own, req_calls, req_out,
                 req_hits, scores>>
  /\ UNCHANGED harness_vars
  /\ UNCHANGED scroll_vars
  /\ UNCHANGED service_vars
  /\ UNCHANGED retrieval_vars
  /\ UNCHANGED builder_vars
  /\ UNCHANGED eval_vars

\* service.populate_messages (run_qa_cli.py:57, run_qa_ui.py:79), outside
\* any try block.
Populate(r) ==
  /\ loop = "running"
  /\ req_pc[r] = IF frontend = "cli" THEN "retrieved" ELSE "ready"
  /\ \E outcome \in CallOutcomes(frontend) :
       /\ req_pc' = [req_pc EXCEPT ![r] = PcAfterCall(outcome, "populated")]
       /\ loop' = LoopAfterCall(frontend, loop, outcome)
  /\ req_calls' = [req_calls EXCEPT ![r] = Append(@, "populate_messages")]
  /\ UNCHANGED <<frontend, turns, trace_id, req_own, req_links, req_out,
                 req_hits, scores>>
  /\ UNCHANGED harness_vars
  /\ UNCHANGED scroll_vars
  /\ UNCHANGED service_vars
  /\ UNCHANGED retrieval_vars
  /\ UNCHANGED builder_vars
  /\ UNCHANGED eval_vars

\* An Exception of service.chat or of its stream: the CLI catches it and
\* prints the apology (run_qa_cli.py:62-71), the UI has no try block.
PcAfterGeneration(fe, outcome, next) ==
  CASE outcome = "returns" -> next
    [] outcome = "raises" -> IF fe = "cli" THEN "apologised" ELSE "raised"
    [] outcome = "interrupted" -> "interrupted"

OutAfterGeneration(fe, outcome, out) ==
  IF outcome = "raises" /\ fe = "cli" THEN Append(out, Apology) ELSE out

LoopAfterGeneration(fe, state, outcome) ==
  IF outcome = "raises" /\ fe = "cli"
    THEN state
    ELSE LoopAfterCall(fe, state, outcome)

\* service.chat(messages) (run_qa_cli.py:63, run_qa_ui.py:82)
Chat(r) ==
  /\ loop = "running"
  /\ req_pc[r] = "populated"
  /\ \E outcome \in CallOutcomes(frontend) :
       /\ req_pc' = [req_pc EXCEPT ![r] =
                       PcAfterGeneration(frontend, outcome, "streaming")]
       /\ req_out' = [req_out EXCEPT ![r] =
                        OutAfterGeneration(frontend, outcome, @)]
       /\ loop' = LoopAfterGeneration(frontend, loop, outcome)
  /\ req_calls' = [req_calls EXCEPT ![r] = Append(@, "chat")]
  /\ UNCHANGED <<frontend, turns, trace_id, req_own, req_links, req_hits,
                 scores>>
  /\ UNCHANGED harness_vars
  /\ UNCHANGED scroll_vars
  /\ UNCHANGED service_vars
  /\ UNCHANGED retrieval_vars
  /\ UNCHANGED builder_vars
  /\ UNCHANGED eval_vars

\* The chunks of the answer shown so far.
Chunks(out) == Cardinality({i \in DOMAIN out : out[i] = Chunk})

\* One step of for chunk in response_stream (run_qa_cli.py:65-68,
\* run_qa_ui.py:86-93): the stream gives a chunk, which is shown (the UI
\* yields after each), or it is exhausted and the turn is answered, or it
\* raises, or Ctrl-C arrives.
Stream(r) ==
  /\ loop = "running"
  /\ req_pc[r] = "streaming"
  /\ \/ /\ Chunks(req_out[r]) < MaxChunks
        /\ req_out' = [req_out EXCEPT ![r] = Append(@, Chunk)]
        /\ UNCHANGED <<req_pc, loop>>
     \/ /\ req_pc' = [req_pc EXCEPT ![r] = "answered"]
        /\ UNCHANGED <<req_out, loop>>
     \/ \E outcome \in CallOutcomes(frontend) \ {"returns"} :
          /\ req_pc' = [req_pc EXCEPT ![r] =
                          PcAfterGeneration(frontend, outcome, "streaming")]
          /\ req_out' = [req_out EXCEPT ![r] =
                           OutAfterGeneration(frontend, outcome, @)]
          /\ loop' = LoopAfterGeneration(frontend, loop, outcome)
  /\ UNCHANGED <<frontend, turns, trace_id, req_own, req_links, req_calls,
                 req_hits, scores>>
  /\ UNCHANGED harness_vars
  /\ UNCHANGED scroll_vars
  /\ UNCHANGED service_vars
  /\ UNCHANGED retrieval_vars
  /\ UNCHANGED builder_vars
  /\ UNCHANGED eval_vars

\* run_qa_ui.py:107-116: the user rates a message of request r that the
\* chatbot shows; the score is created for trace_context.trace_id.
Like(r) ==
  /\ frontend = "ui"
  /\ req_pc[r] \notin {"idle", "traced"}
  /\ Len(scores) < MaxTurns
  /\ \E liked \in BOOLEAN :
       scores' = Append(scores, [answer |-> req_own[r],
                                 value |-> IF liked THEN 1 ELSE 0,
                                 trace_id |-> trace_id])
  /\ UNCHANGED <<frontend, loop, turns, trace_id, req_pc, req_own, req_links,
                 req_calls, req_out, req_hits>>
  /\ UNCHANGED harness_vars
  /\ UNCHANGED scroll_vars
  /\ UNCHANGED service_vars
  /\ UNCHANGED retrieval_vars
  /\ UNCHANGED builder_vars
  /\ UNCHANGED eval_vars

\* run_qa_cli.py:93-96: "exit" or "quit" in any casing ends the loop.
Quit ==
  /\ frontend = "cli"
  /\ loop = "running"
  /\ req_pc[1] \in Ended
  /\ \E input \in TypedInputs : IsExit(input)
  /\ loop' = "ended"
  /\ UNCHANGED <<frontend, turns, trace_id, req_pc, req_own, req_links,
                 req_calls, req_out, req_hits, scores>>
  /\ UNCHANGED harness_vars
  /\ UNCHANGED scroll_vars
  /\ UNCHANGED service_vars
  /\ UNCHANGED retrieval_vars
  /\ UNCHANGED builder_vars
  /\ UNCHANGED eval_vars

\* run_qa_cli.py:98-99: a blank input is read and skipped.
Blank ==
  /\ frontend = "cli"
  /\ loop = "running"
  /\ req_pc[1] \in Ended
  /\ turns < MaxTurns
  /\ \E input \in TypedInputs : ~IsExit(input) /\ Strip(input) = ""
  /\ turns' = turns + 1
  /\ UNCHANGED <<frontend, loop, trace_id, req_pc, req_own, req_links,
                 req_calls, req_out, req_hits, scores>>
  /\ UNCHANGED harness_vars
  /\ UNCHANGED scroll_vars
  /\ UNCHANGED service_vars
  /\ UNCHANGED retrieval_vars
  /\ UNCHANGED builder_vars
  /\ UNCHANGED eval_vars

\* run_qa_cli.py:103-105: KeyboardInterrupt at the prompt, or inside a turn
\* between two calls of the service.
Interrupt ==
  /\ frontend = "cli"
  /\ loop = "running"
  /\ loop' = "ended"
  /\ req_pc' = [req_pc EXCEPT ![1] = IF @ \in Ended THEN @ ELSE "interrupted"]
  /\ UNCHANGED <<frontend, turns, trace_id, req_own, req_links, req_calls,
                 req_out, req_hits, scores>>
  /\ UNCHANGED harness_vars
  /\ UNCHANGED scroll_vars
  /\ UNCHANGED service_vars
  /\ UNCHANGED retrieval_vars
  /\ UNCHANGED builder_vars
  /\ UNCHANGED eval_vars

\* A front end as its module is imported.
InitFrontEnd ==
  /\ RetrievalIdle
  /\ BuilderIdle
  /\ EvalIdle
  /\ HarnessIdle
  /\ ScrollIdle
  /\ ServiceIdle
  /\ frontend \in {"cli", "ui"}
  /\ loop = "starting"
  /\ turns = 0
  /\ trace_id = None
  /\ req_pc = [r \in Requests |-> "idle"]
  /\ req_own = [r \in Requests |-> None]
  /\ req_links = [r \in Requests |-> <<>>]
  /\ req_calls = [r \in Requests |-> <<>>]
  /\ req_out = [r \in Requests |-> <<>>]
  /\ req_hits = [r \in Requests |-> <<>>]
  /\ scores = <<>>

NextFrontEnd ==
  \/ StartUp
  \/ \E r \in Requests : StartTurn(r)
  \/ \E r \in Requests : LinkTrace(r)
  \/ \E r \in Requests : Extract(r)
  \/ \E r \in Requests : Retrieve(r)
  \/ \E r \in Requests : LinkHits(r)
  \/ \E r \in Requests : Populate(r)
  \/ \E r \in Requests : Chat(r)
  \/ \E r \in Requests : Stream(r)
  \/ \E r \in Requests : Like(r)
  \/ Quit
  \/ Blank
  \/ Interrupt

SpecFrontEnd == InitFrontEnd /\ [][NextFrontEnd]_vars

\* The turn of request r is over without an answer and without the no-hits
\* message: a service call of the turn raised.
TurnFailed(r) == req_pc[r] \in {"apologised", "raised"}

\* C24: in the CLI a failure of any stage of a turn (extraction, embedding
\* and retrieval, message assembly, generation) aborts only that turn: the
\* apology is what the turn reports and the input loop is not ended by it
\* (it ends only on exit / quit or a keyboard interrupt).
C24_FailureAbortsOnlyTheTurn ==
  frontend = "cli" =>
    /\ loop # "crashed"
    /\ \A r \in Slots("cli") :
         TurnFailed(r) =>
           /\ req_out[r] # <<>>
           /\ req_out[r][Len(req_out[r])] = Apology

\* How often a turn called a service method.
Calls(calls, name) == Cardinality({i \in DOMAIN calls : calls[i] = name})

\* C25: in the UI every trace link a request shows, and every score given to
\* its answer, carries the trace id that this request set itself.
C25_TraceIdIsTheRequestsOwn ==
  frontend = "ui" =>
    /\ \A r \in Requests :
         \A i \in DOMAIN req_links[r] : req_links[r][i] = req_own[r]
    /\ \A i \in DOMAIN scores : scores[i].trace_id = scores[i].answer

\* The turn of request r is over (not cut short by the keyboard).
TurnOver(r) == req_pc[r] \in {"answered", "no_hits", "apologised", "raised"}

\* C26: in both front ends a turn whose retrieval returned no hits ends with
\* the no-hits message, which is not the apology, and calls neither
\* populate_messages nor chat; a turn with at least one hit calls chat exactly
\* once; chat is never called before generate_queries and retrieve_recipes,
\* in that order.
C26_GenerationOncePerTurnWithHits ==
  \A r \in Slots(frontend) :
    /\ req_pc[r] = "no_hits" =>
         /\ req_out[r] = <<NoHitsMessage(frontend)>>
         /\ NoHitsMessage(frontend) # Apology
         /\ Calls(req_calls[r], "populate_messages") = 0
         /\ Calls(req_calls[r], "chat") = 0
    /\ (TurnOver(r) /\ req_hits[r] # <<>>) => Calls(req_calls[r], "chat") = 1
    /\ Calls(req_calls[r], "chat") <= 1
    /\ Calls(req_calls[r], "chat") = 1 =>
         /\ Len(req_calls[r]) >= 3
         /\ req_calls[r][1] = "generate_queries"
         /\ req_calls[r][2] = "retrieve_recipes"
         /\ req_calls[r][Len(req_calls[r])] = "chat"

(***************************************************************************)
(* eval_core.get_relevant_ids: the ground truth enumerated page by page.   *)
(* The index is a collaborator: client.scroll returns, for the offset it   *)
(* is given, a page of points and the offset of the next page or None.     *)
(***************************************************************************)
Cursors == 1..MaxCursor

Offsets == Optional(Cursors)

PointIds == {1, 2, 3}

\* str(point.id)
StrId(id) ==
  CASE id = 1 -> "1"
    [] id = 2 -> "2"
    [] id = 3 -> "3"

PagePoints == {<<>>, <<1, 2>>, <<2, 3>>}

Pages == [points : PagePoints, next_offset : Offsets]

\* What client.scroll returns for each offset.
Indexes == [Offsets -> Pages]

\* lines 239-240: relevant.add(str(point.id)) for each point of the page
AddPoints(relevant, points) ==
  relevant \cup {StrId(points[i]) : i \in DOMAIN points}

\* Faulty variant: the page with no next offset is left before its points
\* are added.
ScrollIterationBreakFirst(relevant, offset, page) ==
  IF page.next_offset = None
    THEN [relevant |-> relevant, offset |-> offset, done |-> TRUE]
    ELSE [relevant |-> AddPoints(relevant, page.points),
          offset |-> page.next_offset, done |-> FALSE]

\* lines 231-243: one iteration of the while loop, after client.scroll has
\* returned page for offset: the points are added, then the loop is left if
\* next_offset is None, else offset becomes next_offset.
ScrollIteration(relevant, offset, page) ==
  [relevant |-> AddPoints(relevant, page.points),
   offset |-> IF page.next_offset = None THEN offset ELSE page.next_offset,
   done |-> page.next_offset = None]

ScrollPage ==
  /\ scroll_pc = "scrolling"
  /\ Len(scroll_calls) < MaxScrolls
  /\ LET page == scroll_index[scroll_offset]
         step == ScrollIteration(scroll_relevant, scroll_offset, page)
     IN /\ scroll_calls' = Append(scroll_calls, scroll_offset)
        /\ scroll_relevant' = step.relevant
        /\ scroll_offset' = step.offset
        /\ scroll_pc' = IF step.done THEN "returned" ELSE "scrolling"
  /\ UNCHANGED scroll_index
  /\ UNCHANGED retrieval_vars
  /\ UNCHANGED builder_vars
  /\ UNCHANGED eval_vars
  /\ UNCHANGED harness_vars
  /\ UNCHANGED frontend_vars
  /\ UNCHANGED service_vars

\* lines 229-230: relevant = set(), offset = None
InitScroll ==
  /\ RetrievalIdle
  /\ BuilderIdle
  /\ EvalIdle
  /\ HarnessIdle
  /\ FrontEndIdle
  /\ ServiceIdle
  /\ scroll_index \in Indexes
  /\ scroll_offset = None
  /\ scroll_relevant = {}
  /\ scroll_pc = "scrolling"
  /\ scroll_calls = <<>>

NextScroll == ScrollPage

SpecScroll == InitScroll /\ [][NextScroll]_vars

\* The loop has no other work between two scroll calls: an iteration that
\* can be made is made.
SpecScrollFair == SpecScroll /\ WF_vars(ScrollPage)

\* Following next_offset from offset for at most n pages reaches a page
\* whose next_offset is None.
RECURSIVE CursorEnds(_, _)
CursorEnds(offset, n) ==
  IF n = 0 THEN FALSE
  ELSE LET next == scroll_index[offset].next_offset
       IN next = None \/ CursorEnds(next, n - 1)

\* The index eventually returns a None cursor to get_relevant_ids.
IndexEnds == CursorEnds(None, Cardinality(Offsets))

\* The ids of the points on the pages fetched by the calls made so far.
FetchedIds ==
  UNION {{StrId(scroll_index[scroll_calls[i]].points[j]) :
            j \in DOMAIN scroll_index[scroll_calls[i]].points} :
         i \in DOMAIN scroll_calls}

ScrollChained ==
  /\ scroll_calls # <<>> => scroll_calls[1] = None
  /\ \A i \in 2..Len(scroll_calls) :
       /\ scroll_index[scroll_calls[i - 1]].next_offset # None
       /\ scroll_calls[i] = scroll_index[scroll_calls[i - 1]].next_offset
  /\ scroll_pc = "returned" =>
       /\ scroll_calls # <<>>
       /\ scroll_index[scroll_calls[Len(scroll_calls)]].next_offset = None
       /\ scroll_relevant = FetchedIds
       /\ IndexEnds

\* C27: get_relevant_ids calls scroll first with no offset and then with the
\* next_offset of the page before, never after a page whose next_offset is
\* None; when it returns, the last page fetched had next_offset None and the
\* result is the set of str(id) of all points of all pages fetched; it
\* returns only if the index's cursor chain ends in None, and then it does
\* return.
C27_ScrollExhaustive ==
  /\ [](scroll_pc # "idle" => ScrollChained)
  /\ ((scroll_pc = "scrolling" /\ IndexEnds) ~> scroll_pc = "returned")

\* Three pages were fetched, and the last one brought an id of its own.
C27_Witness ==
  /\ scroll_pc = "returned"
  /\ Len(scroll_calls) = 3
  /\ scroll_relevant = {"1", "2", "3"}
  /\ scroll_index[scroll_calls[1]].points = <<>>
  /\ scroll_index[scroll_calls[2]].points = <<1, 2>>
  /\ scroll_index[scroll_calls[3]].points = <<2, 3>>

(***************************************************************************)
(* service.create_mealie_rag_service and the calls made on the service it  *)
(* returns.  retrieve_recipes is given an extraction that generate_queries *)
(* of the same service returned.                                           *)
(***************************************************************************)
\* What MultiQueryQueryBuilder.build returns: the model's extraction, each
\* query replaced in place or kept, so any list of up to MaxQueries texts.
\* The constraints of the extraction play no part in the calls made here.
BuilderResults ==
  {r \in ExpansionReplies :
     /\ r.negative_ingredients = None
     /\ r.min_rating = None
     /\ \A i \in DOMAIN r.expanded_queries : r.expanded_queries[i] = "Query 1"}

\* The embedding provider: one vector per input text, in order.
Embed(texts) ==
  [i \in DOMAIN texts |-> IF texts[i] = "Query 1" THEN <<1>> ELSE <<2>>]

\* embeddings.py:29-34: any error of the provider is raised again
EmbeddingError == Raised("Exception", <<"Error generating embedding: ">>)

\* The factory returned a service.
Built == svc # None /\ Get(svc).error = None

CreateService ==
  /\ svc = None
  /\ \E settings_obj \in SettingsObjects :
       svc' = Some(create_mealie_rag_service(settings_obj))
  /\ UNCHANGED <<svc_built, svc_retrieved, svc_calls>>
  /\ UNCHANGED retrieval_vars
  /\ UNCHANGED builder_vars
  /\ UNCHANGED eval_vars
  /\ UNCHANGED harness_vars
  /\ UNCHANGED frontend_vars
  /\ UNCHANGED scroll_vars

\* service.py:40-46: self.query_builder(user_input)
GenerateQueries ==
  /\ Built
  /\ svc_calls < MaxCalls
  /\ svc_calls' = svc_calls + 1
  /\ \E input \in UserInputs :
       IF Get(svc).query_builder = "DefaultQueryBuilder"
         THEN svc_built' = svc_built \cup {PassThrough(input)}
         ELSE \/ svc_built' = svc_built
              \/ \E built \in BuilderResults :
                   svc_built' = svc_built \cup {QueryExtraction(Kwargs(built, NoExtraKwargs))}
  /\ UNCHANGED <<svc, svc_retrieved>>
  /\ UNCHANGED retrieval_vars
  /\ UNCHANGED builder_vars
  /\ UNCHANGED eval_vars
  /\ UNCHANGED harness_vars
  /\ UNCHANGED frontend_vars
  /\ UNCHANGED scroll_vars

\* service.py:48-74: the queries are embedded; no vectors gives no hits
\* before the retrieval function is called.
retrieve_recipes(service, query_extraction, embed_raises, reply) ==
  IF embed_raises THEN EmbeddingError
  ELSE LET vectors == Embed(query_extraction.expanded_queries)
       IN IF vectors = <<>> THEN Returned(<<>>)
          ELSE IF service.retrieve_results_fn = "retrieve_results_simple"
                    /\ SimpleRejects(vectors)
                 THEN Raised("ValueError", SimpleErrorMessage(Len(vectors)))
                 ELSE reply

RetrieveRecipes ==
  /\ Built
  /\ svc_calls < MaxCalls
  /\ svc_calls' = svc_calls + 1
  /\ \E query_extraction \in svc_built, embed_raises \in BOOLEAN,
        reply \in IndexReplies :
       svc_retrieved' =
         Some(retrieve_recipes(Get(svc), query_extraction, embed_raises, reply))
  /\ UNCHANGED <<svc, svc_built>>
  /\ UNCHANGED retrieval_vars
  /\ UNCHANGED builder_vars
  /\ UNCHANGED eval_vars
  /\ UNCHANGED harness_vars
  /\ UNCHANGED frontend_vars
  /\ UNCHANGED scroll_vars

InitService ==
  /\ RetrievalIdle
  /\ BuilderIdle
  /\ EvalIdle
  /\ HarnessIdle
  /\ FrontEndIdle
  /\ ScrollIdle
  /\ svc = None
  /\ svc_built = {}
  /\ svc_retrieved = None
  /\ svc_calls = 0

NextService == CreateService \/ GenerateQueries \/ RetrieveRecipes

SpecService == InitService /\ [][NextService]_vars

\* C28: the service the factory returns has the builder and the retrieval
\* function of its strategy (multiquery: MultiQueryQueryBuilder with
\* retrieve_results_rrf; otherwise DefaultQueryBuilder with
\* retrieve_results_simple), and no retrieve_recipes call on an extraction
\* of its generate_queries ends in the vector-count ValueError of simple
\* retrieval.
C28_BuilderAndRetrievalPaired ==
  Built =>
    /\ IF Get(svc).search_strategy = "multiquery"
         THEN /\ Get(svc).query_builder = "MultiQueryQueryBuilder"
              /\ Get(svc).retrieve_results_fn = "retrieve_results_rrf"
         ELSE /\ Get(svc).query_builder = "DefaultQueryBuilder"
              /\ Get(svc).retrieve_results_fn = "retrieve_results_simple"
    /\ svc_retrieved # None =>
         ~(/\ Get(svc_retrieved).kind = "raised"
           /\ Get(Get(svc_retrieved).error).type = "ValueError")

\* Simple retrieval was reached with the one vector of a pass-through
\* extraction and returned hits.
C28_Witness ==
  /\ Built
  /\ Get(svc).retrieve_results_fn = "retrieve_results_simple"
  /\ svc_built # {}
  /\ svc_retrieved # None
  /\ Get(svc_retrieved).kind = "returned"
  /\ Get(svc_retrieved).points # <<>>

====
